---- MODULE Spec2Model ----
(***************************************************************************)
(* Model of the wecom-app webhook handler                                  *)
(* (src/extensions/wecom-app/src/monitor.ts): the Stream State table, the  *)
(* msgid -> streamId index, TTL pruning, the request handler with its two  *)
(* suspension points (body read, bounded wait) and the generation          *)
(* callbacks.                                                              *)
(*                                                                         *)
(* Text is a sequence of characters; each character has a UTF-8 width, so  *)
(* Buffer.from(text, "utf8") / buf.toString("utf8") are modelled byte by   *)
(* byte.  Time is in abstract clock units and every timestamp is stored     *)
(* relative to the present: Date.now() is 0, a timestamp taken k units ago *)
(* is -k, and the passing of one unit (Tick) moves every stored timestamp  *)
(* one unit into the past.  STREAM_TTL_MS, INITIAL_STREAM_WAIT_MS and      *)
(* STREAM_MAX_BYTES are scaled down.                                       *)
(***************************************************************************)
EXTENDS Integers, Sequences, FiniteSets, TLC

VARIABLES
    runtime,          \* tryGetWecomAppRuntime() returns a runtime
    streams,          \* streams: Map<streamId, StreamState>
    msgidToStreamId,  \* msgidToStreamId: Map<msgid, streamId>
    issued,           \* stream ids createStreamId() has returned
    calls,            \* callbacks the generation backend has made
    task,             \* per stream id: the dispatchWecomAppMessage promise
    reqs,             \* per request: handler position, locals, response
    tPc, tText, tMax, tOut,  \* the pure-function harness (truncateUtf8Bytes)
    webhookTargets,   \* webhookTargets: Map<path, WecomAppWebhookTarget[]>
    pPc, pRaw, pUrl, pKey, pHit,  \* the path harness (normalizeWebhookPath)
    cPc, cKey, cRid, cPlain, cRandom, cCipher, cOut,  \* the codec harness; cPc is
                      \* "wire" when the bodies of the encrypted responses are kept
    unregisterHooks,  \* channel.ts:22  unregisterHooks: Map<accountId, () => void>
    registrations,    \* target objects registerWecomAppWebhookTarget has created
    accountStatus,    \* per account: what the gateway last passed to ctx.setStatus
    hand              \* a handler run against the changing registry: position,
                      \* its locals targets (monitor.ts:344) and target (455)

vars == <<runtime, streams, msgidToStreamId, issued, calls, task, reqs,
          tPc, tText, tMax, tOut, webhookTargets, pPc, pRaw, pUrl, pKey, pHit,
          cPc, cKey, cRid, cPlain, cRandom, cCipher, cOut,
          unregisterHooks, registrations, accountStatus, hand>>

\* the Target Registry and the path harness
pathState == <<webhookTargets, pPc, pRaw, pUrl, pKey, pHit>>

\* the codec harness
codecState == <<cPc, cKey, cRid, cPlain, cRandom, cCipher, cOut>>

\* the gateway's hooks, the registrations made and the handler run against them
regState == <<unregisterHooks, registrations, accountStatus, hand>>

(***************************************************************************)
(* Bounds of the model                                                     *)
(***************************************************************************)
MaxReq == 2
MaxCalls == 2
MaxChars == 3
\* the longest raw path registered
MaxPath == 4
MaxCap == 4
\* the longest plaintext the codec is run on
MaxPlain == 14
\* the registrations made in one run
MaxReg == 3

(***************************************************************************)
(* Program constants (scaled)                                              *)
(***************************************************************************)
\* monitor.ts:49  STREAM_TTL_MS = 10 * 60 * 1000, here in clock units
STREAM_TTL_MS == 2
\* monitor.ts:51  STREAM_MAX_BYTES = 512_000, here in bytes of the small alphabet
STREAM_MAX_BYTES == 4
\* monitor.ts:52  INITIAL_STREAM_WAIT_MS = 800, here in clock units
INITIAL_STREAM_WAIT_MS == 1

\* Date.now(): the present is the origin of the clock
now == 0
\* timestamps more than STREAM_TTL_MS old are all expired alike (monitor.ts:65 is
\* the only comparison made of them), so they are not aged further
Oldest == now - STREAM_TTL_MS - 1
\* a timestamp, one clock unit later
Aged(t) == IF t > Oldest THEN t - 1 ELSE t

(***************************************************************************)
(* Text: characters and their UTF-8 encoding                               *)
(*   "a"  an ASCII letter (1 byte)       "s"  a space (1 byte, whitespace) *)
(*   "n"  a line feed (1 byte, whitespace)                                 *)
(*   "E"  stands for the literal "Error:" (scaled to 1 byte)               *)
(*   "Z"  a CJK character (3 bytes)      "G"  an emoji (4 bytes)           *)
(*   "R"  U+FFFD REPLACEMENT CHARACTER (3 bytes)                           *)
(***************************************************************************)
Chars == {"a", "s", "n", "E", "Z", "G", "R"}

Width(c) == CASE c = "Z" -> 3 [] c = "R" -> 3 [] c = "G" -> 4 [] OTHER -> 1

IsSpace(c) == c \in {"s", "n"}

\* the bytes of one character: <<c, 0>> is its lead byte, <<c, k>> (k > 0) its
\* k-th continuation byte
CharBytes(c) == [k \in 1..Width(c) |-> <<c, k - 1>>]

RECURSIVE Utf8(_)
\* Buffer.from(text, "utf8")
Utf8(text) ==
    IF text = <<>> THEN <<>> ELSE CharBytes(Head(text)) \o Utf8(Tail(text))

\* a whole character starts at byte i of buf
WholeCharAt(buf, i) ==
    /\ buf[i][2] = 0
    /\ i + Width(buf[i][1]) - 1 <= Len(buf)
    /\ \A k \in 1..(Width(buf[i][1]) - 1) : buf[i + k] = <<buf[i][1], k>>

\* the mark of a byte that yields no character of its own
NoChar == ""

\* buf.toString("utf8"): a well-formed sequence decodes to its character, every
\* other byte (a stray continuation byte, a cut-off lead byte) to U+FFFD
Utf8Decode(buf) ==
    LET Continues(i) == /\ buf[i][2] > 0
                        /\ i - buf[i][2] >= 1
                        /\ WholeCharAt(buf, i - buf[i][2])
        Keep(c) == c # NoChar
        decoded == [i \in 1..Len(buf) |->
                       IF WholeCharAt(buf, i) THEN buf[i][1]
                       ELSE IF Continues(i) THEN NoChar
                       ELSE "R"]
    IN SelectSeq(decoded, Keep)

ByteLength(text) == Len(Utf8(text))

RECURSIVE TrimStart(_)
TrimStart(text) ==
    IF text # <<>> /\ IsSpace(Head(text)) THEN TrimStart(Tail(text)) ELSE text

RECURSIVE TrimEnd(_)
TrimEnd(text) ==
    IF text # <<>> /\ IsSpace(text[Len(text)])
    THEN TrimEnd(SubSeq(text, 1, Len(text) - 1)) ELSE text

\* String.prototype.trim
Trim(text) == TrimEnd(TrimStart(text))

IsSuffix(s, t) == Len(s) <= Len(t) /\ s = SubSeq(t, Len(t) - Len(s) + 1, Len(t))

\* monitor.ts:79  the byte offset (0-based) at which the retained tail starts
TruncateStart(buf, maxBytes) == Len(buf) - maxBytes

\* monitor.ts:76-81
truncateUtf8Bytes(text, maxBytes) ==
    LET buf == Utf8(text) IN
    IF Len(buf) <= maxBytes THEN text
    ELSE Utf8Decode(SubSeq(buf, TruncateStart(buf, maxBytes) + 1, Len(buf)))

(***************************************************************************)
(* Stream State store                                                      *)
(***************************************************************************)
MsgIds == {"m1", "m2"}
\* msg.msgid ?? msg.MsgId absent (or empty): msgid is undefined
NoMsgId == ""
\* a request creates at most one stream
StreamIds == 1..MaxReq
\* monitor.ts:500  String(msg.stream?.id ?? "").trim() of a message without one
NoStreamId == 0
\* monitor.ts:505  the literal "unknown"
UnknownStreamId == -1

\* an optional string: undefined, or a text
None == <<>>
Some(text) == <<text>>
\* JavaScript truthiness of an optional string
Truthy(opt) == opt # None /\ opt[1] # <<>>

\* a state created without its message id
NewStreamStateNoMsgId(streamId, msgid, t) ==
    [streamId |-> streamId, msgid |-> NoMsgId, createdAt |-> t, updatedAt |-> t,
     started |-> FALSE, finished |-> FALSE, error |-> None, content |-> <<>>]

\* monitor.ts:584-592
NewStreamState(streamId, msgid, t) ==
    [streamId |-> streamId, msgid |-> msgid, createdAt |-> t, updatedAt |-> t,
     started |-> FALSE, finished |-> FALSE, error |-> None, content |-> <<>>]

\* pruneStreams with an off-by-one cutoff
PruneStreamTableLate(st, t) ==
    LET cutoff == t - STREAM_TTL_MS - 1
        keep == {id \in DOMAIN st : ~(st[id].updatedAt < cutoff)}
    IN [id \in keep |-> st[id]]

\* a pruning that drops the finished streams too
PruneStreamTableFinished(st, t) ==
    LET cutoff == t - STREAM_TTL_MS
        keep == {id \in DOMAIN st : ~(st[id].updatedAt < cutoff) /\ ~st[id].finished}
    IN [id \in keep |-> st[id]]

\* a pruning by age since creation
PruneStreamTableByCreation(st, t) ==
    LET cutoff == t - STREAM_TTL_MS
        keep == {id \in DOMAIN st : ~(st[id].createdAt < cutoff)}
    IN [id \in keep |-> st[id]]

\* monitor.ts:63-68  the first loop of pruneStreams
PruneStreamTable(st, t) ==
    LET cutoff == t - STREAM_TTL_MS
        keep == {id \in DOMAIN st : ~(st[id].updatedAt < cutoff)}
    IN [id \in keep |-> st[id]]

\* pruneStreams without its second loop
PruneIndexKeepAll(idx, st) == idx

\* monitor.ts:69-73  the second loop of pruneStreams
PruneIndex(idx, st) ==
    [m \in {k \in DOMAIN idx : idx[k] \in DOMAIN st} |-> idx[m]]

\* monitor.ts:249-251  crypto.randomBytes(16): an id never returned before
createStreamId(used) == CHOOSE id \in StreamIds \ used : \A o \in StreamIds \ used : id <= o

\* monitor.ts:309  previous content and new text, joined by a blank line
JoinContent(content, nextText) ==
    IF content # <<>> THEN Trim(content \o <<"n", "n">> \o nextText) ELSE Trim(nextText)

\* an append that re-opens the stream
appendStreamContentReopen(state, nextText, t) ==
    [state EXCEPT !.content = truncateUtf8Bytes(JoinContent(state.content, nextText), STREAM_MAX_BYTES),
                  !.finished = FALSE,
                  !.updatedAt = t]

\* monitor.ts:308-312
appendStreamContent(state, nextText, t) ==
    [state EXCEPT !.content = truncateUtf8Bytes(JoinContent(state.content, nextText), STREAM_MAX_BYTES),
                  !.updatedAt = t]

\* the literal "Error: " of monitor.ts:619 and :647
ErrorPrefix == <<"E", "s">>

\* a failure that is recorded without its description
FailStreamNoContent(state, errText, t) ==
    [state EXCEPT !.error = Some(errText), !.finished = TRUE, !.updatedAt = t]

\* monitor.ts:617-622 and 645-650  the body of hooks.onError and of the catch
FailStream(state, errText, t) ==
    [state EXCEPT !.error = Some(errText),
                  !.content = IF state.content # <<>> THEN state.content ELSE ErrorPrefix \o errText,
                  !.finished = TRUE,
                  !.updatedAt = t]

\* a completion that refreshes the update time only
FinishStreamUnmarked(state, t) == [state EXCEPT !.updatedAt = t]

\* monitor.ts:638-641 and 655-658
FinishStream(state, t) == [state EXCEPT !.finished = TRUE, !.updatedAt = t]

\* a dispatch that leaves the started flag alone
StartStreamSkipped(state) == state

\* monitor.ts:598
StartStream(state) == [state EXCEPT !.started = TRUE]

(***************************************************************************)
(* Envelope codec (crypto.js, which monitor.ts:11-16 imports): bytes are   *)
(* 0..255, a base64 text is a sequence of sextets 0..63 with 64 for "=".   *)
(* The block cipher is stood in for by a keyed bijection on bytes, chained *)
(* from block to block as CBC chains, with modular addition for XOR.       *)
(***************************************************************************)
\* the random prefix of the plain buffer, in bytes
RandomLen == 16
\* the length prefix, in bytes
LengthLen == 4
\* the block of the cipher, in bytes
CipherBlock == 16
\* the block the padding fills, in bytes
PadBlock == 32
\* the base64 sextet standing for "="
B64Pad == 64

\* the key bytes an encodingAESKey decodes to
AesKey(encodingAESKey) ==
    LET seed == CASE encodingAESKey = "k1" -> 3
                  [] encodingAESKey = "k2" -> 5
                  [] encodingAESKey = "k3" -> 7
                  [] encodingAESKey = "k5" -> 11
                  [] OTHER -> 13
    IN [i \in 1..PadBlock |-> (seed * i + 1) % 256]

\* the initialization vector: the leading slice of the key
Iv(encodingAESKey) == SubSeq(AesKey(encodingAESKey), 1, CipherBlock)

\* n as a big-endian unsigned integer of LengthLen bytes
BigEndian(n) == [i \in 1..LengthLen |-> (n \div (256 ^ (LengthLen - i))) % 256]

\* the unsigned integer a sequence of bytes is, big-endian
RECURSIVE FromBigEndian(_)
FromBigEndian(bytes) ==
    IF bytes = <<>> THEN 0
    ELSE 256 * FromBigEndian(SubSeq(bytes, 1, Len(bytes) - 1)) + bytes[Len(bytes)]

\* padding without a whole block of padding for a buffer that fills its blocks
Pkcs7PadShort(buf) ==
    LET pad == (PadBlock - (Len(buf) % PadBlock)) % PadBlock
    IN buf \o [i \in 1..pad |-> pad]

\* standard block padding: 1..PadBlock bytes, each holding their number
Pkcs7Pad(buf) ==
    LET pad == PadBlock - (Len(buf) % PadBlock)
    IN buf \o [i \in 1..pad |-> pad]

\* the padding is well formed
Pkcs7Ok(buf) ==
    /\ Len(buf) > 0
    /\ buf[Len(buf)] \in 1..PadBlock
    /\ buf[Len(buf)] <= Len(buf)

Pkcs7Unpad(buf) == SubSeq(buf, 1, Len(buf) - buf[Len(buf)])

\* CBC encryption: each block is added to the previous cipher block (the IV for
\* the first) and goes through the keyed bijection
CbcEncrypt(encodingAESKey, buf) ==
    LET key == AesKey(encodingAESKey)
        iv == Iv(encodingAESKey)
        out[i \in 1..Len(buf)] ==
            LET prev == IF i <= CipherBlock THEN iv[i] ELSE out[i - CipherBlock]
            IN (buf[i] + prev + key[((i - 1) % CipherBlock) + 1]) % 256
    IN out

CbcDecrypt(encodingAESKey, buf) ==
    LET key == AesKey(encodingAESKey)
        iv == Iv(encodingAESKey)
    IN [i \in 1..Len(buf) |->
           LET prev == IF i <= CipherBlock THEN iv[i] ELSE buf[i - CipherBlock]
           IN (buf[i] + 512 - prev - key[((i - 1) % CipherBlock) + 1]) % 256]

\* Buffer.toString("base64")
Base64Encode(bytes) ==
    LET n == Len(bytes)
        byte(i) == IF i <= n THEN bytes[i] ELSE 0
    IN [k \in 1..(4 * ((n + 2) \div 3)) |->
           LET g == (k - 1) \div 4
               pos == (k - 1) % 4
               v == byte(3 * g + 1) * 65536 + byte(3 * g + 2) * 256 + byte(3 * g + 3)
           IN IF pos > 0 /\ 3 * g + pos > n THEN B64Pad
              ELSE (v \div (64 ^ (3 - pos))) % 64]

\* a base64 text: whole quartets, "=" only as the last one or two sextets
Base64Ok(text) ==
    /\ Len(text) % 4 = 0
    /\ \A k \in 1..Len(text) : text[k] \in 0..B64Pad
    /\ \A k \in 1..Len(text) : text[k] = B64Pad => k >= Len(text) - 1
    /\ (Len(text) > 1 /\ text[Len(text) - 1] = B64Pad) => text[Len(text)] = B64Pad

\* Buffer.from(text, "base64")
Base64Decode(text) ==
    LET pads == Cardinality({k \in 1..Len(text) : text[k] = B64Pad})
        sextet(k) == IF text[k] = B64Pad THEN 0 ELSE text[k]
    IN [m \in 1..(3 * (Len(text) \div 4) - pads) |->
           LET g == (m - 1) \div 3
               pos == (m - 1) % 3
               v == sextet(4 * g + 1) * 262144 + sextet(4 * g + 2) * 4096
                      + sextet(4 * g + 3) * 64 + sextet(4 * g + 4)
           IN (v \div (256 ^ (2 - pos))) % 256]

\* the random prefix of the replies
FreshRandom == [i \in 1..RandomLen |-> (251 * i) % 256]

\* encryptWecomAppPlaintext: [random][length][message][receiveId], padded,
\* encrypted, base64-encoded; random is the fresh random prefix
encryptWecomAppPlaintext(encodingAESKey, receiveId, plaintext, random) ==
    LET buffer == random \o BigEndian(Len(plaintext)) \o plaintext \o receiveId
    IN Base64Encode(CbcEncrypt(encodingAESKey, Pkcs7Pad(buffer)))

\* the result of a decryption: the plaintext, or a decode failure
Decoded(plaintext) == [ok |-> TRUE, plaintext |-> plaintext]
DecodeFailure == [ok |-> FALSE, plaintext |-> <<>>]

\* decryptWecomAppEncrypted, on the bytes: base64-decode, decrypt, strip the
\* padding, read the length, check the trailing receiveId, slice the message
DecryptEnvelope(encodingAESKey, receiveId, encrypt) ==
    IF ~Base64Ok(encrypt) THEN DecodeFailure
    ELSE LET padded == CbcDecrypt(encodingAESKey, Base64Decode(encrypt))
         IN IF ~Pkcs7Ok(padded) THEN DecodeFailure
            ELSE LET buffer == Pkcs7Unpad(padded)
                     head == RandomLen + LengthLen
                     length == FromBigEndian(SubSeq(buffer, RandomLen + 1, head))
                 IN IF Len(buffer) < head \/ head + length > Len(buffer) THEN DecodeFailure
                    ELSE IF SubSeq(buffer, head + length + 1, Len(buffer)) # receiveId
                         THEN DecodeFailure
                    ELSE Decoded(SubSeq(buffer, head + 1, head + length))

(***************************************************************************)
(* Replies                                                                 *)
(***************************************************************************)
\* a response: its status, the kind of body, the stream reply's fields, and the
\* methods of its Allow header
Reply(status, type, id, finish, content) ==
    [status |-> status, type |-> type, id |-> id, finish |-> finish, content |-> content,
     allow |-> {}]

NoReply == Reply(0, "none", NoStreamId, FALSE, <<>>)

\* monitor.ts:232  the placeholder text ("please wait")
PlaceholderText == <<"Z", "Z", "a">>

\* monitor.ts:226-235
buildStreamPlaceholderReply(streamId) ==
    Reply(200, "stream", streamId, FALSE, PlaceholderText)

\* monitor.ts:237-247
buildStreamReplyFromState(state) ==
    Reply(200, "stream", state.streamId, state.finished,
          truncateUtf8Bytes(state.content, STREAM_MAX_BYTES))

\* a synthesized state that is not finished
SynthesizedStateOpen(streamId, t) ==
    [streamId |-> IF streamId # NoStreamId THEN streamId ELSE UnknownStreamId,
     msgid |-> NoMsgId, createdAt |-> t, updatedAt |-> t,
     started |-> TRUE, finished |-> FALSE, error |-> None, content |-> <<>>]

\* monitor.ts:504-511  the state synthesized for an unknown stream id
SynthesizedState(streamId, t) ==
    [streamId |-> IF streamId # NoStreamId THEN streamId ELSE UnknownStreamId,
     msgid |-> NoMsgId, createdAt |-> t, updatedAt |-> t,
     started |-> TRUE, finished |-> TRUE, error |-> None, content |-> <<>>]

\* monitor.ts:558-566 and 570-578  the empty acknowledgment
AckReply == Reply(200, "ack", NoStreamId, FALSE, <<>>)

\* the bytes of a character in a JSON string: UTF-8, the line feed escaped
JsonChar(c) ==
    CASE c = "a" -> <<97>>
      [] c = "s" -> <<32>>
      [] c = "n" -> <<92, 110>>
      [] c = "E" -> <<69>>
      [] c = "Z" -> <<228, 129, 130>>
      [] c = "R" -> <<239, 129, 130>>
      [] c = "G" -> <<240, 129, 130, 131>>

RECURSIVE JsonString(_)
JsonString(text) ==
    IF text = <<>> THEN <<>> ELSE JsonChar(Head(text)) \o JsonString(Tail(text))

\* JSON.stringify(plaintextJson ?? {}): "{}" for the empty acknowledgment; for a
\* stream reply the braces around its id, its finish flag and its content
JsonStringify(reply) ==
    IF reply.type = "stream"
    THEN <<123, reply.id, IF reply.finish THEN 1 ELSE 0>> \o JsonString(reply.content) \o <<125>>
    ELSE <<123, 125>>

\* JSON.parse of a reply's plaintext: its type, id, finish flag and content
JsonParse(bytes) ==
    IF bytes = <<123, 125>>
    THEN [type |-> "ack", id |-> NoStreamId, finish |-> FALSE, content |-> <<>>]
    ELSE LET body == SubSeq(bytes, 4, Len(bytes) - 1)
             char(b) == CASE b = 97 -> "a" [] b = 32 -> "s" [] b = 110 -> "n"
                          [] b = 69 -> "E" [] b = 228 -> "Z" [] b = 239 -> "R"
                          [] b = 240 -> "G" [] OTHER -> NoChar
             decoded == [i \in 1..Len(body) |-> char(body[i])]
             Keep(c) == c # NoChar
         IN [type |-> "stream", id |-> bytes[2], finish |-> bytes[3] = 1,
             content |-> SelectSeq(decoded, Keep)]

\* computeWecomAppMsgSignature (crypto.js): the digest of the four strings,
\* taken as one-to-one
computeWecomAppMsgSignature(token, timestamp, nonce, encrypt) ==
    [token |-> token, timestamp |-> timestamp, nonce |-> nonce, encrypt |-> encrypt]

\* the body of a response that is not encrypted
NoEnvelope == [encrypt |-> <<>>, msgsignature |-> <<>>, timestamp |-> "", nonce |-> ""]

\* an envelope stamped with the nonce as timestamp and the timestamp as nonce
buildEncryptedJsonReplySwapped(account, plaintextJson, nonce, timestamp) ==
    LET encrypt == encryptWecomAppPlaintext(account.encodingAESKey, account.receiveId,
                                            JsonStringify(plaintextJson), FreshRandom)
    IN [encrypt |-> encrypt,
        msgsignature |-> computeWecomAppMsgSignature(account.token, timestamp, nonce, encrypt),
        timestamp |-> nonce,
        nonce |-> timestamp]

\* monitor.ts:186-210
buildEncryptedJsonReply(account, plaintextJson, nonce, timestamp) ==
    LET plaintext == JsonStringify(plaintextJson)
        encrypt == encryptWecomAppPlaintext(account.encodingAESKey, account.receiveId,
                                            plaintext, FreshRandom)
    IN [encrypt |-> encrypt,
        msgsignature |-> computeWecomAppMsgSignature(account.token, timestamp, nonce, encrypt),
        timestamp |-> timestamp,
        nonce |-> nonce]

\* monitor.ts:389-391  the decrypted challenge
EchoReply(plain) == Reply(200, "plain", NoStreamId, FALSE, plain)

\* an error response; monitor.ts:402-404 adds the Allow header to the 405
ErrorReply(status) ==
    [Reply(status, "error", NoStreamId, FALSE, <<>>) EXCEPT
        !.allow = IF status = 405 THEN {"GET", "POST"} ELSE {}]

(***************************************************************************)
(* Requests                                                                *)
(***************************************************************************)
\* the decrypted, parsed message (parseWecomAppPlainMessage, monitor.ts:257-291)
Msg(msgtype, msgid, streamId, event, from) ==
    [msgtype |-> msgtype, msgid |-> msgid, streamId |-> streamId, event |-> event,
     from |-> from]

TextMsg(msgid) == Msg("text", msgid, NoStreamId, "", TRUE)
PollMsg(streamId) == Msg("stream", NoMsgId, streamId, "", TRUE)
EventMsg(event, msgid) == Msg("event", msgid, NoStreamId, event, TRUE)

\* an HTTP request to a registered path:
\*   method     req.method
\*   query      timestamp, nonce and signature are all present in the query
\*   echostr    the query carries echostr
\*   challenge  the text echostr is the encryption of
\*   format     the body's format: "xml" (tag-delimited) | "json" (key/value)
\*   body       what readRawBody and the format detection find:
\*              "large" | "empty" | "badjson" | "noencrypt" | "ok"
\*   sig        the token the query's signature was computed with
\*   bodySig    the token the signature carried in the body (with its timestamp
\*              and nonce) was computed with; NoSig: the body carries none
\*   key        the key the ciphertext (echostr or Encrypt) was encrypted with
\*   timestamp, nonce           the query's values, "" when absent
\*   bodyTimestamp, bodyNonce   the values the body carries, "" when absent
\*   msg        the decrypted message
Request(method, query, echostr, format, body, sig, bodySig, key, msg) ==
    [method |-> method, query |-> query, echostr |-> echostr,
     challenge |-> IF echostr THEN <<"a", "a">> ELSE <<>>,
     format |-> format, body |-> body, sig |-> sig, bodySig |-> bodySig,
     key |-> key, msg |-> msg,
     timestamp |-> IF query THEN "T1" ELSE "", nonce |-> IF query THEN "N1" ELSE "",
     bodyTimestamp |-> IF bodySig # "" THEN "T2" ELSE "",
     bodyNonce |-> IF bodySig # "" THEN "N2" ELSE ""]

NoSig == ""

Delivery(msg) == Request("POST", TRUE, FALSE, "xml", "ok", "t1", NoSig, "k1", msg)
NoRequest == Request("", FALSE, FALSE, "", "", "", NoSig, "", TextMsg(NoMsgId))

\* the path the targets are registered on, and the requests are sent to
HookPath == <<"/", "a">>

\* a registered target (WecomAppWebhookTarget, monitor.ts:26-32): its account's id,
\* token, configured flag, encodingAESKey and receiveId (in bytes), whether
\* config.welcomeText is not blank, and canSendActive
Target(account, token, configured, encodingAESKey, welcomeText, canSendActive) ==
    [account |-> account, token |-> token, configured |-> configured,
     encodingAESKey |-> encodingAESKey, receiveId |-> <<99, account>>,
     welcomeText |-> welcomeText,
     canSendActive |-> canSendActive]

\* the targets registered on HookPath, in registration order; the second shares
\* the token of the first
RegisteredTargets ==
    << Target(1, "t1", TRUE, "k1", TRUE, TRUE),
       Target(2, "t1", TRUE, "k2", FALSE, TRUE),
       Target(3, "t2", TRUE, "k2", TRUE, FALSE),
       Target(4, "t3", TRUE, "k3", FALSE, TRUE),
       Target(5, "t4", TRUE, "", TRUE, TRUE),
       Target(6, "t5", FALSE, "k5", TRUE, TRUE) >>

\* the targets registered on the path (webhookTargets.get(path), monitor.ts:344)
Targets == webhookTargets[HookPath]

\* verifyWecomAppSignature (crypto.js): the signature verifies under the token it
\* was computed with, and under no other
verifyWecomAppSignature(token, sig) == token # "" /\ sig = token

\* decryptWecomAppEncrypted (crypto.js): the ciphertext decrypts under the key it
\* was encrypted with, and under no other
decryptWecomAppEncrypted(encodingAESKey, key) == encodingAESKey # "" /\ key = encodingAESKey

\* Array.prototype.find: the index of the first target satisfying ok, or 0
FindTarget(ok(_)) ==
    IF \E i \in 1..Len(Targets) : ok(Targets[i])
    THEN CHOOSE i \in 1..Len(Targets) :
            ok(Targets[i]) /\ \A j \in 1..(i - 1) : ~ok(Targets[j])
    ELSE 0

\* monitor.ts:423-434  the signature (with its timestamp and nonce) that is
\* verified: the body's in the XML format when it carries one, else the query's
MsgSignature(in) ==
    IF in.format = "xml" /\ in.bodySig # NoSig THEN in.bodySig ELSE in.sig

\* monitor.ts:423, 433  msgTimestamp
MsgTimestamp(in) ==
    IF in.format = "xml" /\ in.bodyTimestamp # "" THEN in.bodyTimestamp ELSE in.timestamp

\* monitor.ts:424, 434  msgNonce
MsgNonce(in) ==
    IF in.format = "xml" /\ in.bodyNonce # "" THEN in.bodyNonce ELSE in.nonce

\* monitor.ts:366-375
GetCandidateOk(in, candidate) ==
    candidate.configured /\ verifyWecomAppSignature(candidate.token, in.sig)

\* monitor.ts:455-464
PostCandidateOk(in, candidate) ==
    verifyWecomAppSignature(candidate.token, MsgSignature(in))

\* a lookup that takes the last target whose signature verifies
PostTargetLast(in) ==
    IF \E i \in 1..Len(Targets) : PostCandidateOk(in, Targets[i])
    THEN CHOOSE i \in 1..Len(Targets) :
            /\ PostCandidateOk(in, Targets[i])
            /\ \A j \in (i + 1)..Len(Targets) : ~PostCandidateOk(in, Targets[j])
    ELSE 0

\* monitor.ts:455-464  the index of the target of a POST, or 0
PostTarget(in) == LET ok(c) == PostCandidateOk(in, c) IN FindTarget(ok)

\* a handshake that echoes the challenge without looking at the signature
HandshakeReplyNoAuth(in) ==
    IF ~in.query \/ ~in.echostr THEN ErrorReply(400)
    ELSE EchoReply(in.challenge)

\* monitor.ts:358-399  the GET branch
HandshakeReply(in) ==
    LET ok(c) == GetCandidateOk(in, c)
        i == FindTarget(ok)
    IN IF ~in.query \/ ~in.echostr THEN ErrorReply(400)
       ELSE IF i = 0 \/ Targets[i].encodingAESKey = "" THEN ErrorReply(401)
       ELSE IF decryptWecomAppEncrypted(Targets[i].encodingAESKey, in.key)
            THEN EchoReply(in.challenge)
       ELSE ErrorReply(400)

\* monitor.ts:401-412  the checks made before the body is read; 0: none fails
EarlyStatus(in) ==
    IF in.method # "POST" THEN 405
    ELSE IF ~in.query THEN 400
    ELSE 0

\* the checks made once the body is read, without the decryption failure
LateStatusNoDecrypt(in) ==
    LET i == PostTarget(in)
    IN IF in.body = "large" THEN 413
       ELSE IF in.body \in {"empty", "badjson", "noencrypt"} THEN 400
       ELSE IF i = 0 THEN 401
       ELSE IF ~Targets[i].configured \/ Targets[i].token = "" \/ Targets[i].encodingAESKey = ""
            THEN 500
       ELSE 0

\* monitor.ts:414-490  the checks made once the body is read; 0: none fails
LateStatus(in) ==
    LET i == PostTarget(in)
    IN IF in.body = "large" THEN 413
       ELSE IF in.body \in {"empty", "badjson", "noencrypt"} THEN 400
       ELSE IF i = 0 THEN 401
       ELSE IF ~Targets[i].configured \/ Targets[i].token = "" \/ Targets[i].encodingAESKey = ""
            THEN 500
       ELSE IF ~decryptWecomAppEncrypted(Targets[i].encodingAESKey, in.key) THEN 400
       ELSE 0

\* the target that authenticated the request
TargetOf(in) == Targets[PostTarget(in)]

\* a classification without the duplicate check
ClassifyNoDuplicate(msg, idx) ==
    IF msg.msgtype = "stream" THEN "poll"
    ELSE IF msg.msgtype = "event" THEN "event"
    ELSE "new"

\* a classification that tests for an event before it tests for a duplicate
ClassifyEventFirst(msg, idx) ==
    IF msg.msgtype = "stream" THEN "poll"
    ELSE IF msg.msgtype = "event" THEN "event"
    ELSE IF msg.msgid # NoMsgId /\ msg.msgid \in DOMAIN idx THEN "duplicate"
    ELSE "new"

\* monitor.ts:495-592  the branch a decrypted message takes
Classify(msg, idx) ==
    IF msg.msgtype = "stream" THEN "poll"
    ELSE IF msg.msgid # NoMsgId /\ msg.msgid \in DOMAIN idx THEN "duplicate"
    ELSE IF msg.msgtype = "event" THEN "event"
    ELSE "new"

\* monitor.ts:499-511
PollReply(msg, st, t) ==
    IF msg.streamId # NoStreamId /\ msg.streamId \in DOMAIN st
    THEN buildStreamReplyFromState(st[msg.streamId])
    ELSE buildStreamReplyFromState(SynthesizedState(msg.streamId, t))

\* monitor.ts:525-527
DuplicateReply(msg, idx) == buildStreamPlaceholderReply(idx[msg.msgid])

\* a welcome sent whenever the target has welcome text
SendsWelcomeConfigured(msg, target) ==
    /\ msg.event \in {"enter_chat", "subscribe"}
    /\ target.welcomeText

\* monitor.ts:547-557  the event branch calls sendWecomAppMessage
SendsWelcome(msg, target) ==
    /\ msg.event \in {"enter_chat", "subscribe"}
    /\ target.welcomeText /\ target.canSendActive
    /\ msg.from

\* a wait without the time bound
WaitOverUnbounded(st, streamId, startedAt, t, maxWaitMs) ==
    \/ streamId \notin DOMAIN st
    \/ Truthy(st[streamId].error)
    \/ st[streamId].finished
    \/ Trim(st[streamId].content) # <<>>

\* monitor.ts:300-301  the tests that end the bounded wait
WaitOver(st, streamId, startedAt, t, maxWaitMs) ==
    \/ streamId \notin DOMAIN st
    \/ Truthy(st[streamId].error)
    \/ st[streamId].finished
    \/ Trim(st[streamId].content) # <<>>
    \/ t - startedAt >= maxWaitMs

\* an initial reply always built from the state
InitialReplyFromState(st, streamId) ==
    IF streamId \in DOMAIN st
    THEN buildStreamReplyFromState(st[streamId])
    ELSE buildStreamPlaceholderReply(streamId)

\* monitor.ts:662-665
InitialReply(st, streamId) ==
    IF streamId \in DOMAIN st /\ (Trim(st[streamId].content) # <<>> \/ Truthy(st[streamId].error))
    THEN buildStreamReplyFromState(st[streamId])
    ELSE buildStreamPlaceholderReply(streamId)

(***************************************************************************)
(* Inputs of the model                                                     *)
(***************************************************************************)
Slots == 1..MaxReq

\* texts the generation backend passes to hooks.onChunk
ChunkTexts == {<<"Z", "Z">>}
\* error messages the generation backend fails with
ErrTexts == {<<"a", "a", "a", "a">>}

\* content messages and polls for the first stream id (unknown until it is
\* issued, live, then pruned)
Messages == {TextMsg(m) : m \in MsgIds} \cup {PollMsg(1)}

Inputs == {Delivery(msg) : msg \in Messages}

\* handshakes: with and without the query parameters and the challenge, signed
\* with the token of a usable target, of one without key, of one not configured,
\* or of none; the challenge encrypted with the first target's key or another
Handshakes ==
    {Request("GET", q, e, "", "", sig, NoSig, key, TextMsg(NoMsgId)) :
        q \in BOOLEAN, e \in BOOLEAN, sig \in {"t1", "t4", "t5", "bad"}, key \in {"k1", "bad"}}

\* requests with another method
OtherMethods ==
    {Request("PUT", q, FALSE, "xml", body, "t1", NoSig, "k1", TextMsg("m1")) :
        q \in BOOLEAN, body \in {"ok", "large"}}

\* deliveries failing any combination of the checks
BodyShapes ==
    {<<"xml", "large">>, <<"xml", "empty">>, <<"xml", "noencrypt">>, <<"json", "badjson">>,
     <<"xml", "ok">>}

Rejections ==
    {Request("POST", q, FALSE, b[1], b[2], sig, NoSig, key, TextMsg("m1")) :
        q \in BOOLEAN, b \in BodyShapes, sig \in {"t1", "t4", "t5", "bad"}, key \in {"k1", "bad"}}

\* deliveries in both formats carrying signature parameters in the query, in the
\* body, in both or in neither
SignedInBody ==
    {Request("POST", q, FALSE, f, "ok", sig, bodySig, "k1", TextMsg("m1")) :
        q \in BOOLEAN, f \in {"xml", "json"}, sig \in {"t1", "bad"},
        bodySig \in {NoSig, "t1", "bad"}}

\* deliveries signed with each target's token and encrypted with each key
Credentials == {<<"t1", "k1">>, <<"t1", "k2">>, <<"t2", "k2">>, <<"t2", "k1">>, <<"t3", "k3">>}

MultiTarget ==
    {Request("POST", TRUE, FALSE, "xml", "ok", c[1], NoSig, c[2], msg) :
        c \in Credentials, msg \in {TextMsg("m1"), PollMsg(1)}}

\* event notifications: with and without message id and sender, to targets with
\* and without welcome text and active sending
Events ==
    {Request("POST", TRUE, FALSE, "xml", "ok", c[1], NoSig, c[2],
             Msg("event", msgid, NoStreamId, event, from)) :
        c \in {<<"t1", "k1">>, <<"t2", "k2">>, <<"t3", "k3">>},
        msgid \in {NoMsgId, "m1"}, event \in {"subscribe", "enter_chat", "click"},
        from \in BOOLEAN}

GateInputs == Handshakes \cup OtherMethods \cup Rejections \cup SignedInBody
                 \cup MultiTarget \cup Events

(***************************************************************************)
(* State                                                                   *)
(*   reqs[r].pc        "idle"  not arrived                                 *)
(*                     "body"  suspended in await readRawBody              *)
(*                     "wait"  suspended in await waitForStreamContent     *)
(*                     "done"  response sent                               *)
(*   reqs[r].branch    the branch that handled it                          *)
(*   reqs[r].streamId  the handler's local streamId (new message branch)   *)
(*   reqs[r].startedAt the startedAt of waitForStreamContent               *)
(*   reqs[r].arrivedAt the time the handler was entered        (history,   *)
(*   reqs[r].after     the requests answered before this one    recorded   *)
(*                     arrived, and that arrived at most        in SpecSeq *)
(*                     STREAM_TTL_MS before it                  only)      *)
(*   reqs[r].core      the handler's local core (monitor.ts:594): a        *)
(*                     runtime was available                               *)
(*   reqs[r].sent      the handler called sendWecomAppMessage              *)
(*   reqs[r].target    the handler's local target (monitor.ts:455): the    *)
(*                     account id of the target found, 0 before            *)
(*   reqs[r].msgTimestamp, reqs[r].msgNonce  the handler's locals          *)
(*                     (monitor.ts:423-424) the signature was verified     *)
(*                     with                                                *)
(*   reqs[r].envelope  the body of an encrypted response                   *)
(*   reqs[r].sealedBy  the account passed to buildEncryptedJsonReply for   *)
(*                     the response, 0 if the response is not encrypted    *)
(*   reqs[r].dispatchedFor  the account passed to dispatchWecomAppMessage, *)
(*                     0 if it was not called                              *)
(***************************************************************************)
IdleRequest ==
    [pc |-> "idle", in |-> NoRequest, branch |-> "", streamId |-> NoStreamId,
     startedAt |-> 0, arrivedAt |-> None, after |-> {}, core |-> FALSE,
     sent |-> FALSE, target |-> 0, sealedBy |-> 0, dispatchedFor |-> 0,
     msgTimestamp |-> "", msgNonce |-> "", envelope |-> NoEnvelope,
     reply |-> NoReply]

HarnessOff == tPc = "off" /\ tText = <<>> /\ tMax = 0 /\ tOut = <<>>

PathOff == pPc = "off" /\ pRaw = <<>> /\ pUrl = <<>> /\ pKey = <<>> /\ pHit = FALSE

CodecOff ==
    /\ cPc = "off" /\ cKey = "" /\ cRid = <<>> /\ cPlain = <<>> /\ cRandom = <<>>
    /\ cCipher = <<>> /\ cOut = DecodeFailure

\* no gateway call made, no handler run against the registry
IdleHandler == [pc |-> "off", sig |-> NoSig, targets |-> <<>>, target |-> 0, status |-> 0]

RegOff ==
    unregisterHooks = <<>> /\ registrations = <<>> /\ accountStatus = <<>> /\ hand = IdleHandler

\* the targets are registered on HookPath
Registered == webhookTargets = [path \in {HookPath} |-> RegisteredTargets]

Init ==
    /\ runtime = FALSE
    /\ streams = <<>>
    /\ msgidToStreamId = <<>>
    /\ issued = {}
    /\ calls = 0
    /\ task = [id \in StreamIds |-> "none"]
    /\ reqs = [r \in Slots |-> IdleRequest]
    /\ HarnessOff
    /\ Registered
    /\ PathOff
    /\ CodecOff
    /\ RegOff

Waiting(r) == reqs[r].pc = "wait"

\* one clock unit passes; a request in its bounded wait is answered by the timer
\* (25 ms period, monitor.ts:302) before the clock moves past the wait bound
Tick ==
    /\ \A r \in Slots : Waiting(r) => now - reqs[r].startedAt < INITIAL_STREAM_WAIT_MS
    /\ streams' = [id \in DOMAIN streams |->
                      [streams[id] EXCEPT !.createdAt = Aged(@), !.updatedAt = Aged(@)]]
    /\ reqs' = [r \in Slots |->
                   [reqs[r] EXCEPT !.arrivedAt = IF @ = None THEN None ELSE Some(Aged(@[1])),
                                   !.startedAt = IF Waiting(r) THEN @ - 1 ELSE @]]
    /\ UNCHANGED <<runtime, msgidToStreamId, issued, calls, task, tPc, tText, tMax, tOut, pathState, codecState, regState>>

\* the plugin runtime is set (setWecomAppRuntime)
SetRuntime ==
    /\ ~runtime
    /\ runtime' = TRUE
    /\ UNCHANGED <<streams, msgidToStreamId, issued, calls, task, reqs,
                   tPc, tText, tMax, tOut, pathState, codecState, regState>>

\* the response is sent and the handler returns
Done(q, reply) == [q EXCEPT !.pc = "done", !.reply = reply, !.startedAt = 0]

\* jsonOk(res, buildEncryptedJsonReply({account: target.account, ...})): the
\* response is encrypted and signed with the credentials of the handler's target
\* (the body is kept only when the model is run on the wire, cPc = "wire")
DoneEncrypted(q, reply) ==
    [Done(q, reply) EXCEPT
        !.sealedBy = q.target,
        !.envelope = IF cPc = "wire"
                     THEN buildEncryptedJsonReply(Targets[q.target], reply,
                                                  q.msgNonce, q.msgTimestamp)
                     ELSE NoEnvelope]

\* the requests already answered that arrived at most STREAM_TTL_MS ago
AnsweredWithinTtl ==
    {q \in Slots : /\ reqs[q].pc = "done"
                   /\ reqs[q].arrivedAt # None
                   /\ now - reqs[q].arrivedAt[1] <= STREAM_TTL_MS}

\* a handler that is not entered while another one is in its bounded wait
StartRequestBlocked(r, in, log) ==
    /\ reqs[r].pc = "idle"
    /\ \A w \in Slots : ~Waiting(w)
    /\ \A q \in 1..(r - 1) : reqs[q].pc # "idle"
    \* message ids are interchangeable: "m2" is not the first one delivered
    /\ in.msg.msgid = "m2" => \E q \in 1..(r - 1) : reqs[q].in.msg.msgid = "m1"
    /\ LET st == PruneStreamTable(streams, now)
           q0 == [reqs[r] EXCEPT
                    !.in = in,
                    !.arrivedAt = IF log THEN Some(now) ELSE None,
                    !.after = IF log THEN AnsweredWithinTtl ELSE {}]
       IN /\ streams' = st
          /\ msgidToStreamId' = PruneIndex(msgidToStreamId, st)
          /\ reqs' = [reqs EXCEPT ![r] =
                IF in.method = "GET"
                THEN Done([q0 EXCEPT !.branch = "handshake"], HandshakeReply(in))
                ELSE IF EarlyStatus(in) # 0
                THEN Done([q0 EXCEPT !.branch = "rejected"], ErrorReply(EarlyStatus(in)))
                ELSE [q0 EXCEPT !.pc = "body"]]
    /\ UNCHANGED <<runtime, issued, calls, task, tPc, tText, tMax, tOut, pathState, codecState, regState>>

\* monitor.ts:340-412  handleWecomAppWebhookRequest up to await readRawBody
\* (log: the arrival is recorded in arrivedAt and after)
StartRequest(r, in, log) ==
    /\ reqs[r].pc = "idle"
    /\ \A q \in 1..(r - 1) : reqs[q].pc # "idle"
    \* message ids are interchangeable: "m2" is not the first one delivered
    /\ in.msg.msgid = "m2" => \E q \in 1..(r - 1) : reqs[q].in.msg.msgid = "m1"
    /\ LET st == PruneStreamTable(streams, now)
           q0 == [reqs[r] EXCEPT
                    !.in = in,
                    !.arrivedAt = IF log THEN Some(now) ELSE None,
                    !.after = IF log THEN AnsweredWithinTtl ELSE {}]
       IN /\ streams' = st
          /\ msgidToStreamId' = PruneIndex(msgidToStreamId, st)
          /\ reqs' = [reqs EXCEPT ![r] =
                IF in.method = "GET"
                THEN Done([q0 EXCEPT !.branch = "handshake"], HandshakeReply(in))
                ELSE IF EarlyStatus(in) # 0
                THEN Done([q0 EXCEPT !.branch = "rejected"], ErrorReply(EarlyStatus(in)))
                ELSE [q0 EXCEPT !.pc = "body"]]
    /\ UNCHANGED <<runtime, issued, calls, task, tPc, tText, tMax, tOut, pathState, codecState, regState>>

\* a new message branch that leaves the message id out of the index
NewMessageUnindexed(r, msg) ==
    LET streamId == createStreamId(issued)
        created == NewStreamState(streamId, msg.msgid, now)
        state == IF runtime THEN StartStream(created) ELSE FinishStream(created, now)
        st == [id \in DOMAIN streams \cup {streamId} |->
                  IF id = streamId THEN state ELSE streams[id]]
        q == [reqs[r] EXCEPT !.branch = "new", !.streamId = streamId,
                             !.startedAt = now, !.core = runtime,
                             !.target = PostTarget(reqs[r].in),
                             !.msgTimestamp = MsgTimestamp(reqs[r].in),
                             !.msgNonce = MsgNonce(reqs[r].in),
                             !.dispatchedFor = IF runtime THEN PostTarget(reqs[r].in) ELSE 0]
    IN /\ issued # StreamIds
       /\ issued' = issued \cup {streamId}
       /\ msgidToStreamId' = msgidToStreamId
       /\ streams' = st
       /\ task' = [task EXCEPT ![streamId] = IF runtime THEN "running" ELSE "none"]
       /\ reqs' = [reqs EXCEPT ![r] =
            IF INITIAL_STREAM_WAIT_MS <= 0
                \/ WaitOver(st, streamId, now, now, INITIAL_STREAM_WAIT_MS)
            THEN DoneEncrypted(q, InitialReply(st, streamId))
            ELSE [q EXCEPT !.pc = "wait"]]

\* monitor.ts:582-659  the new message branch up to await waitForStreamContent
NewMessage(r, msg) ==
    LET streamId == createStreamId(issued)
        created == NewStreamState(streamId, msg.msgid, now)
        state == IF runtime THEN StartStream(created) ELSE FinishStream(created, now)
        st == [id \in DOMAIN streams \cup {streamId} |->
                  IF id = streamId THEN state ELSE streams[id]]
        q == [reqs[r] EXCEPT !.branch = "new", !.streamId = streamId,
                             !.startedAt = now, !.core = runtime,
                             !.target = PostTarget(reqs[r].in),
                             !.msgTimestamp = MsgTimestamp(reqs[r].in),
                             !.msgNonce = MsgNonce(reqs[r].in),
                             !.dispatchedFor = IF runtime THEN PostTarget(reqs[r].in) ELSE 0]
    IN /\ issued # StreamIds
       /\ issued' = issued \cup {streamId}
       /\ msgidToStreamId' =
            IF msg.msgid # NoMsgId
            THEN [m \in DOMAIN msgidToStreamId \cup {msg.msgid} |->
                     IF m = msg.msgid THEN streamId ELSE msgidToStreamId[m]]
            ELSE msgidToStreamId
       /\ streams' = st
       /\ task' = [task EXCEPT ![streamId] = IF runtime THEN "running" ELSE "none"]
       /\ reqs' = [reqs EXCEPT ![r] =
            IF INITIAL_STREAM_WAIT_MS <= 0
                \/ WaitOver(st, streamId, now, now, INITIAL_STREAM_WAIT_MS)
            THEN DoneEncrypted(q, InitialReply(st, streamId))
            ELSE [q EXCEPT !.pc = "wait"]]

\* a handler whose poll branch refreshes the update time of the stream polled
BodyReadTouching(r) ==
    /\ reqs[r].pc = "body"
    /\ LET in == reqs[r].in
           msg == in.msg
           branch == Classify(msg, msgidToStreamId)
       IN IF LateStatus(in) # 0
          THEN /\ reqs' = [reqs EXCEPT ![r] =
                      Done([@ EXCEPT !.branch = "rejected"], ErrorReply(LateStatus(in)))]
               /\ UNCHANGED <<streams, msgidToStreamId, issued, task>>
          ELSE IF branch = "poll"
          THEN /\ reqs' = [reqs EXCEPT ![r] =
                      DoneEncrypted([@ EXCEPT !.branch = branch, !.target = PostTarget(in),
                                              !.msgTimestamp = MsgTimestamp(in),
                                              !.msgNonce = MsgNonce(in)],
                                    PollReply(msg, streams, now))]
               /\ streams' = [id \in DOMAIN streams |->
                                 IF id = msg.streamId
                                 THEN [streams[id] EXCEPT !.updatedAt = now]
                                 ELSE streams[id]]
               /\ UNCHANGED <<msgidToStreamId, issued, task>>
          ELSE IF branch = "duplicate"
          THEN /\ reqs' = [reqs EXCEPT ![r] =
                      DoneEncrypted([@ EXCEPT !.branch = branch, !.target = PostTarget(in),
                                              !.msgTimestamp = MsgTimestamp(in),
                                              !.msgNonce = MsgNonce(in)],
                                    DuplicateReply(msg, msgidToStreamId))]
               /\ UNCHANGED <<streams, msgidToStreamId, issued, task>>
          ELSE IF branch = "event"
          THEN /\ reqs' = [reqs EXCEPT ![r] =
                      DoneEncrypted([@ EXCEPT !.branch = branch, !.target = PostTarget(in),
                                              !.msgTimestamp = MsgTimestamp(in),
                                              !.msgNonce = MsgNonce(in),
                                              !.sent = SendsWelcome(msg, TargetOf(in))],
                                    AckReply)]
               /\ UNCHANGED <<streams, msgidToStreamId, issued, task>>
          ELSE NewMessage(r, msg)
    /\ UNCHANGED <<runtime, calls, tPc, tText, tMax, tOut, pathState, codecState, regState>>

\* monitor.ts:414-659  from the body read to the response or the bounded wait
BodyRead(r) ==
    /\ reqs[r].pc = "body"
    /\ LET in == reqs[r].in
           msg == in.msg
           branch == Classify(msg, msgidToStreamId)
       IN IF LateStatus(in) # 0
          THEN /\ reqs' = [reqs EXCEPT ![r] =
                      Done([@ EXCEPT !.branch = "rejected"], ErrorReply(LateStatus(in)))]
               /\ UNCHANGED <<streams, msgidToStreamId, issued, task>>
          ELSE IF branch = "poll"
          THEN /\ reqs' = [reqs EXCEPT ![r] =
                      DoneEncrypted([@ EXCEPT !.branch = branch, !.target = PostTarget(in),
                                              !.msgTimestamp = MsgTimestamp(in),
                                              !.msgNonce = MsgNonce(in)],
                                    PollReply(msg, streams, now))]
               /\ UNCHANGED <<streams, msgidToStreamId, issued, task>>
          ELSE IF branch = "duplicate"
          THEN /\ reqs' = [reqs EXCEPT ![r] =
                      DoneEncrypted([@ EXCEPT !.branch = branch, !.target = PostTarget(in),
                                              !.msgTimestamp = MsgTimestamp(in),
                                              !.msgNonce = MsgNonce(in)],
                                    DuplicateReply(msg, msgidToStreamId))]
               /\ UNCHANGED <<streams, msgidToStreamId, issued, task>>
          ELSE IF branch = "event"
          THEN /\ reqs' = [reqs EXCEPT ![r] =
                      DoneEncrypted([@ EXCEPT !.branch = branch, !.target = PostTarget(in),
                                              !.msgTimestamp = MsgTimestamp(in),
                                              !.msgNonce = MsgNonce(in),
                                              !.sent = SendsWelcome(msg, TargetOf(in))],
                                    AckReply)]
               /\ UNCHANGED <<streams, msgidToStreamId, issued, task>>
          ELSE NewMessage(r, msg)
    /\ UNCHANGED <<runtime, calls, tPc, tText, tMax, tOut, pathState, codecState, regState>>

\* monitor.ts:293-306 and 661-677  the bounded wait ends and the response is sent
WaitDone(r) ==
    /\ reqs[r].pc = "wait"
    /\ WaitOver(streams, reqs[r].streamId, reqs[r].startedAt, now, INITIAL_STREAM_WAIT_MS)
    /\ reqs' = [reqs EXCEPT ![r] = DoneEncrypted(@, InitialReply(streams, reqs[r].streamId))]
    /\ UNCHANGED <<runtime, streams, msgidToStreamId, issued, calls, task,
                   tPc, tText, tMax, tOut, pathState, codecState, regState>>

\* The generation backend (dispatchWecomAppMessage, bot.js) calls the hooks while
\* its task runs, then settles the task; MaxCalls bounds its callbacks.
\* a callback's update of the stream it was created for: a no-op once pruned
UpdateStream(id, f(_)) ==
    streams' = [k \in DOMAIN streams |-> IF k = id THEN f(streams[k]) ELSE streams[k]]

\* a hook that drops the chunk once the originating response has been sent
OnChunkUntilAnswered(id, text) ==
    /\ task[id] = "running"
    /\ calls < MaxCalls
    /\ calls' = calls + 1
    /\ IF \E q \in Slots : reqs[q].streamId = id /\ reqs[q].pc = "done"
       THEN streams' = streams
       ELSE streams' = [k \in DOMAIN streams |->
                          IF k = id THEN appendStreamContent(streams[k], text, now)
                          ELSE streams[k]]
    /\ UNCHANGED <<runtime, msgidToStreamId, issued, task, reqs,
                   tPc, tText, tMax, tOut, pathState, codecState, regState>>

\* a hook that creates a Stream State when it finds none under its id
OnChunkRecreate(id, text) ==
    /\ task[id] = "running"
    /\ calls < MaxCalls
    /\ calls' = calls + 1
    /\ streams' = [k \in DOMAIN streams \cup {id} |->
                      IF k = id
                      THEN appendStreamContent(IF id \in DOMAIN streams THEN streams[id]
                                               ELSE NewStreamState(id, NoMsgId, now),
                                               text, now)
                      ELSE streams[k]]
    /\ UNCHANGED <<runtime, msgidToStreamId, issued, task, reqs,
                   tPc, tText, tMax, tOut, pathState, codecState, regState>>

\* monitor.ts:603-614  hooks.onChunk
OnChunk(id, text) ==
    /\ task[id] = "running"
    /\ calls < MaxCalls
    /\ calls' = calls + 1
    /\ LET f(state) == appendStreamContent(state, text, now) IN UpdateStream(id, f)
    /\ UNCHANGED <<runtime, msgidToStreamId, issued, task, reqs,
                   tPc, tText, tMax, tOut, pathState, codecState, regState>>

\* monitor.ts:615-624  hooks.onError
OnError(id, errText) ==
    /\ task[id] = "running"
    /\ calls < MaxCalls
    /\ calls' = calls + 1
    /\ LET f(state) == FailStream(state, errText, now) IN UpdateStream(id, f)
    /\ UNCHANGED <<runtime, msgidToStreamId, issued, task, reqs,
                   tPc, tText, tMax, tOut, pathState, codecState, regState>>

\* monitor.ts:636-642  the dispatch promise resolves
TaskResolve(id) ==
    /\ task[id] = "running"
    /\ calls < MaxCalls
    /\ calls' = calls + 1
    /\ task' = [task EXCEPT ![id] = "resolved"]
    /\ LET f(state) == FinishStream(state, now) IN UpdateStream(id, f)
    /\ UNCHANGED <<runtime, msgidToStreamId, issued, reqs,
                   tPc, tText, tMax, tOut, pathState, codecState, regState>>

\* monitor.ts:643-652  the dispatch promise rejects
TaskReject(id, errText) ==
    /\ task[id] = "running"
    /\ calls < MaxCalls
    /\ calls' = calls + 1
    /\ task' = [task EXCEPT ![id] = "rejected"]
    /\ LET f(state) == FailStream(state, errText, now) IN UpdateStream(id, f)
    /\ UNCHANGED <<runtime, msgidToStreamId, issued, reqs,
                   tPc, tText, tMax, tOut, pathState, codecState, regState>>

Next ==
    \/ Tick
    \/ SetRuntime
    \/ \E r \in Slots, in \in Inputs : StartRequest(r, in, FALSE)
    \/ \E r \in Slots : BodyRead(r)
    \/ \E r \in Slots : WaitDone(r)
    \/ \E id \in StreamIds, text \in ChunkTexts : OnChunk(id, text)
    \/ \E id \in StreamIds, text \in ErrTexts : OnError(id, text)
    \/ \E id \in StreamIds : TaskResolve(id)
    \/ \E id \in StreamIds, text \in ErrTexts : TaskReject(id, text)

\* requests, callbacks and the clock, in any interleaving
Spec == Init /\ [][Next]_vars

InFlight(r) == reqs[r].pc \in {"body", "wait"}

\* requests handled one after the other: a request arrives once every earlier
\* one is answered; arrival times are recorded
NextSeq ==
    \/ Tick
    \/ SetRuntime
    \/ \E r \in Slots, in \in Inputs :
          /\ \A q \in Slots : ~InFlight(q)
          /\ StartRequest(r, in, TRUE)
    \/ \E r \in Slots : BodyRead(r)
    \/ \E r \in Slots : WaitDone(r)
    \/ \E id \in StreamIds, text \in ChunkTexts : OnChunk(id, text)
    \/ \E id \in StreamIds, text \in ErrTexts : OnError(id, text)
    \/ \E id \in StreamIds : TaskResolve(id)
    \/ \E id \in StreamIds, text \in ErrTexts : TaskReject(id, text)

SpecSeq == Init /\ [][NextSeq]_vars

\* the delivery of a content message that the other requests come after
FirstDelivery == Delivery(TextMsg("m1"))

\* requests of every shape: one request drawn from GateInputs, before or after
\* deliveries of a content message whose generation makes no callback
NextGate ==
    \/ Tick
    \/ SetRuntime
    \/ \E r \in Slots, in \in GateInputs \cup {FirstDelivery} :
          /\ in # FirstDelivery =>
                \A q \in Slots \ {r} : reqs[q].in \in {FirstDelivery, NoRequest}
          /\ StartRequest(r, in, FALSE)
    \/ \E r \in Slots : BodyRead(r)
    \/ \E r \in Slots : WaitDone(r)
    \/ \E id \in StreamIds : TaskResolve(id)

SpecGate == Init /\ [][NextGate]_vars

\* error messages of both sizes: one that fits the cap with its prefix too
FailTexts == {<<"a">>} \cup ErrTexts

\* a content message and polls for its stream, with a backend that fails
NextFail ==
    \/ Tick
    \/ SetRuntime
    \/ \E r \in Slots, in \in {FirstDelivery, Delivery(PollMsg(1))} : StartRequest(r, in, FALSE)
    \/ \E r \in Slots : BodyRead(r)
    \/ \E r \in Slots : WaitDone(r)
    \/ \E id \in StreamIds, text \in ChunkTexts : OnChunk(id, text)
    \/ \E id \in StreamIds, text \in FailTexts : OnError(id, text)
    \/ \E id \in StreamIds : TaskResolve(id)
    \/ \E id \in StreamIds, text \in FailTexts : TaskReject(id, text)

SpecFail == Init /\ [][NextFail]_vars

\* the handler with the bodies of its encrypted responses
InitWire ==
    /\ runtime = FALSE
    /\ streams = <<>>
    /\ msgidToStreamId = <<>>
    /\ issued = {}
    /\ calls = 0
    /\ task = [id \in StreamIds |-> "none"]
    /\ reqs = [r \in Slots |-> IdleRequest]
    /\ HarnessOff
    /\ Registered
    /\ PathOff
    /\ cPc = "wire" /\ cKey = "" /\ cRid = <<>> /\ cPlain = <<>> /\ cRandom = <<>>
    /\ cCipher = <<>> /\ cOut = DecodeFailure
    /\ RegOff

\* deliveries signed in the body (with any signature in the query) or in the
\* query: content messages, polls for two targets, an event
WireInputs ==
    {Request("POST", TRUE, FALSE, f, "ok", sig, "t1", "k1", TextMsg("m1")) :
        f \in {"xml", "json"}, sig \in {"t1", "bad"}}
      \cup {Request("POST", TRUE, FALSE, "xml", "ok", c[1], NoSig, c[2], PollMsg(1)) :
              c \in {<<"t1", "k1">>, <<"t2", "k2">>}}
      \cup {Request("POST", TRUE, FALSE, "xml", "ok", "t1", NoSig, "k1",
                     EventMsg("subscribe", NoMsgId))}

NextWire ==
    \/ Tick
    \/ SetRuntime
    \/ \E r \in Slots, in \in WireInputs \cup {FirstDelivery} :
          /\ in # FirstDelivery =>
                \A q \in Slots \ {r} : reqs[q].in \in {FirstDelivery, NoRequest}
          /\ StartRequest(r, in, FALSE)
    \/ \E r \in Slots : BodyRead(r)
    \/ \E r \in Slots : WaitDone(r)
    \/ \E id \in StreamIds, text \in ChunkTexts : OnChunk(id, text)
    \/ \E id \in StreamIds : TaskResolve(id)

SpecWire == InitWire /\ [][NextWire]_vars

\* messages of every type, with and without a message id, a stream id and an
\* event type: a message may qualify for several branches
ClassInputs ==
    {Delivery(Msg(msgtype, msgid, streamId, event, TRUE)) :
        msgtype \in {"stream", "event", "text"}, msgid \in {NoMsgId, "m1"},
        streamId \in {NoStreamId, 1}, event \in {"", "subscribe"}}

\* a first delivery and one message of any kind, in any interleaving
NextClass ==
    \/ Tick
    \/ SetRuntime
    \/ \E r \in Slots, in \in ClassInputs \cup {FirstDelivery} :
          /\ in # FirstDelivery =>
                \A q \in Slots \ {r} : reqs[q].in \in {FirstDelivery, NoRequest}
          /\ StartRequest(r, in, FALSE)
    \/ \E r \in Slots : BodyRead(r)
    \/ \E r \in Slots : WaitDone(r)
    \/ \E id \in StreamIds, text \in ChunkTexts : OnChunk(id, text)
    \/ \E id \in StreamIds : TaskResolve(id)

SpecClass == Init /\ [][NextClass]_vars

\* what may come in while a delivery is in its bounded wait: a delivery of
\* another message id, polls for this and for another stream id, a handshake
WaitInputs ==
    {Delivery(TextMsg("m2")), Delivery(PollMsg(1)), Delivery(PollMsg(2)),
     Request("GET", TRUE, TRUE, "", "", "t1", NoSig, "k1", TextMsg(NoMsgId))}

\* a first delivery, then requests arriving while a request is in its bounded
\* wait, with the callbacks of the generation
NextWait ==
    \/ Tick
    \/ SetRuntime
    \/ \E r \in Slots, in \in WaitInputs \cup {FirstDelivery} :
          /\ in # FirstDelivery => \E w \in Slots : Waiting(w)
          /\ in = FirstDelivery => r = 1
          /\ StartRequest(r, in, FALSE)
    \/ \E r \in Slots : BodyRead(r)
    \/ \E r \in Slots : WaitDone(r)
    \/ \E id \in StreamIds, text \in ChunkTexts : OnChunk(id, text)
    \/ \E id \in StreamIds : TaskResolve(id)

SpecWait == Init /\ [][NextWait]_vars

\* the timer of the bounded wait fires, and the clock advances
SpecLive == Spec /\ WF_vars(Tick) /\ \A r \in Slots : WF_vars(WaitDone(r))

(***************************************************************************)
(* truncateUtf8Bytes on its own: every text of at most MaxChars characters *)
(* and every byte limit up to MaxCap                                       *)
(***************************************************************************)
TextChars == {"a", "s", "Z", "G"}

Texts == UNION {[1..n -> TextChars] : n \in 0..MaxChars}

InitTrunc ==
    /\ runtime = FALSE
    /\ streams = <<>>
    /\ msgidToStreamId = <<>>
    /\ issued = {}
    /\ calls = 0
    /\ task = [id \in StreamIds |-> "none"]
    /\ reqs = [r \in Slots |-> IdleRequest]
    /\ Registered
    /\ PathOff
    /\ CodecOff
    /\ RegOff
    /\ tPc = "in"
    /\ tText \in Texts
    /\ tMax \in 0..MaxCap
    /\ tOut = <<>>

Truncate ==
    /\ tPc = "in"
    /\ tPc' = "out"
    /\ tOut' = truncateUtf8Bytes(tText, tMax)
    /\ UNCHANGED <<runtime, streams, msgidToStreamId, issued, calls, task, reqs,
                   tText, tMax, pathState, codecState, regState>>

NextTrunc == Truncate

SpecTrunc == InitTrunc /\ [][NextTrunc]_vars

(***************************************************************************)
(* The registry on its own: a target registered under every raw path of at *)
(* most MaxPath characters, and a request to every URL path of that length *)
(***************************************************************************)
\* a path is a sequence of characters: the slash, a letter, the space ("s")
PathChars == {"/", "a", "s"}

RawPaths == UNION {[1..n -> PathChars] : n \in 0..MaxPath}

\* URL.pathname starts with a slash and holds no raw space
UrlPaths == {<<"/">> \o p : p \in UNION {[1..n -> {"/", "a"}] : n \in 0..(MaxPath - 1)}}

\* monitor.ts:54-60
normalizeWebhookPath(raw) ==
    LET trimmed == Trim(raw)
        withSlash == IF trimmed[1] = "/" THEN trimmed ELSE <<"/">> \o trimmed
    IN IF trimmed = <<>> THEN <<"/">>
       ELSE IF Len(withSlash) > 1 /\ withSlash[Len(withSlash)] = "/"
            THEN SubSeq(withSlash, 1, Len(withSlash) - 1)
       ELSE withSlash

InitPath ==
    /\ runtime = FALSE
    /\ streams = <<>>
    /\ msgidToStreamId = <<>>
    /\ issued = {}
    /\ calls = 0
    /\ task = [id \in StreamIds |-> "none"]
    /\ reqs = [r \in Slots |-> IdleRequest]
    /\ HarnessOff
    /\ webhookTargets = <<>>
    /\ pPc = "raw"
    /\ pRaw \in RawPaths
    /\ pUrl \in UrlPaths
    /\ pKey = <<>>
    /\ pHit = FALSE
    /\ CodecOff
    /\ RegOff

\* monitor.ts:324-329  registerWecomAppWebhookTarget with target.path = pRaw
Register ==
    /\ pPc = "raw"
    /\ LET key == normalizeWebhookPath(pRaw)
           existing == IF key \in DOMAIN webhookTargets THEN webhookTargets[key] ELSE <<>>
           next == Append(existing, RegisteredTargets[1])
       IN /\ webhookTargets' = [k \in DOMAIN webhookTargets \cup {key} |->
                                   IF k = key THEN next ELSE webhookTargets[k]]
          /\ pKey' = key
    /\ pPc' = "registered"
    /\ UNCHANGED <<runtime, streams, msgidToStreamId, issued, calls, task, reqs,
                   tPc, tText, tMax, tOut, pRaw, pUrl, pHit, codecState, regState>>

\* monitor.ts:340-345  a request to pUrl: pruning, then the lookup of its path
Resolve ==
    /\ pPc = "registered"
    /\ streams' = PruneStreamTable(streams, now)
    /\ msgidToStreamId' = PruneIndex(msgidToStreamId, PruneStreamTable(streams, now))
    /\ pHit' = (normalizeWebhookPath(pUrl) \in DOMAIN webhookTargets)
    /\ pPc' = "resolved"
    /\ UNCHANGED <<runtime, issued, calls, task, reqs, webhookTargets,
                   tPc, tText, tMax, tOut, pRaw, pUrl, pKey, codecState, regState>>

\* monitor.ts:330-334  the function registerWecomAppWebhookTarget returned
Unregister ==
    /\ pPc = "resolved"
    /\ LET keep(entry) == entry # RegisteredTargets[1]
           updated == SelectSeq(webhookTargets[pKey], keep)
       IN webhookTargets' =
             IF Len(updated) > 0 THEN [webhookTargets EXCEPT ![pKey] = updated]
             ELSE [k \in DOMAIN webhookTargets \ {pKey} |-> webhookTargets[k]]
    /\ pPc' = "unregistered"
    /\ UNCHANGED <<runtime, streams, msgidToStreamId, issued, calls, task, reqs,
                   tPc, tText, tMax, tOut, pRaw, pUrl, pKey, pHit, codecState, regState>>

NextPath == Register \/ Resolve \/ Unregister

SpecPath == InitPath /\ [][NextPath]_vars

(***************************************************************************)
(* Target Registry and gateway: registerWecomAppWebhookTarget and the      *)
(* function it returns (monitor.ts:324-335), gateway.startAccount and      *)
(* stopAccount (channel.ts:235-298), and a handler run while the registry  *)
(* changes.  A registration creates a new target object (normalizedTarget) *)
(* which the returned function removes by identity: registrations[h] is    *)
(* the h-th object created, and h stands for its identity.                 *)
(***************************************************************************)
Accounts == {1, 2}

\* the token of an account's configuration
AccountToken(account) == IF account = 1 THEN "t1" ELSE "t2"

\* account.config.webhookPath as configured: two spellings of one path, and
\* another path
ConfiguredPaths == {<<"/", "a">>, <<"a", "/">>, <<"/", "a", "a">>}

\* the paths requests are sent to
RequestPaths == {normalizeWebhookPath(raw) : raw \in ConfiguredPaths}

\* monitor.ts:325-326  normalizedTarget = { ...target, path: key }
NormalizedTarget(handle, account, raw) ==
    [handle |-> handle, account |-> account, token |-> AccountToken(account),
     path |-> normalizeWebhookPath(raw)]

\* monitor.ts:327-329  the registry after registerWecomAppWebhookTarget(target)
Registering(wt, target) ==
    LET existing == IF target.path \in DOMAIN wt THEN wt[target.path] ELSE <<>>
        next == Append(existing, target)
    IN [k \in DOMAIN wt \cup {target.path} |-> IF k = target.path THEN next ELSE wt[k]]

\* an unregister function that removes every target of the account on the path
UnregisteringByAccount(wt, target) ==
    LET keep(entry) == entry.account # target.account
        existing == IF target.path \in DOMAIN wt THEN wt[target.path] ELSE <<>>
        updated == SelectSeq(existing, keep)
    IN IF Len(updated) > 0
       THEN [k \in DOMAIN wt \cup {target.path} |-> IF k = target.path THEN updated ELSE wt[k]]
       ELSE [k \in DOMAIN wt \ {target.path} |-> wt[k]]

\* monitor.ts:330-334  the registry after a call of the function that
\* registerWecomAppWebhookTarget(target) returned
Unregistering(wt, target) ==
    LET keep(entry) == entry.handle # target.handle
        existing == IF target.path \in DOMAIN wt THEN wt[target.path] ELSE <<>>
        updated == SelectSeq(existing, keep)
    IN IF Len(updated) > 0
       THEN [k \in DOMAIN wt \cup {target.path} |-> IF k = target.path THEN updated ELSE wt[k]]
       ELSE [k \in DOMAIN wt \ {target.path} |-> wt[k]]

InitReg ==
    /\ runtime = FALSE
    /\ streams = <<>>
    /\ msgidToStreamId = <<>>
    /\ issued = {}
    /\ calls = 0
    /\ task = [id \in StreamIds |-> "none"]
    /\ reqs = [r \in Slots |-> IdleRequest]
    /\ HarnessOff
    /\ webhookTargets = <<>>
    /\ PathOff
    /\ CodecOff
    /\ unregisterHooks = <<>>
    /\ registrations = <<>>
    /\ accountStatus = [account \in Accounts |-> "none"]
    /\ hand = [IdleHandler EXCEPT !.pc = "idle"]

\* what the registry actions leave alone
RegFrame ==
    UNCHANGED <<runtime, streams, msgidToStreamId, issued, calls, task, reqs,
                tPc, tText, tMax, tOut, pPc, pRaw, pUrl, pKey, pHit, codecState>>

\* registerWecomAppWebhookTarget({account, path: raw, ...})
RegisterTarget(account, raw) ==
    /\ Len(registrations) < MaxReg
    /\ LET target == NormalizedTarget(Len(registrations) + 1, account, raw)
       IN /\ registrations' = Append(registrations, target)
          /\ webhookTargets' = Registering(webhookTargets, target)
    /\ UNCHANGED <<unregisterHooks, accountStatus, hand>>
    /\ RegFrame

\* a call of the function the h-th registration returned, for the first time
\* or again
CallUnregister(h) ==
    /\ h \in 1..Len(registrations)
    /\ webhookTargets' = Unregistering(webhookTargets, registrations[h])
    /\ UNCHANGED <<unregisterHooks, registrations, accountStatus, hand>>
    /\ RegFrame

\* monitor.ts:340-412  a request to path arrives: the handler takes the
\* path's targets and suspends in the body read (no targets: not handled)
HandlerStart(path, sig) ==
    /\ hand.pc \in {"idle", "done"}
    /\ hand' = IF path \in DOMAIN webhookTargets /\ Len(webhookTargets[path]) > 0
               THEN [pc |-> "body", sig |-> sig, targets |-> webhookTargets[path],
                     target |-> 0, status |-> 0]
               ELSE [pc |-> "done", sig |-> sig, targets |-> <<>>, target |-> 0,
                     status |-> 404]
    /\ UNCHANGED <<webhookTargets, unregisterHooks, registrations, accountStatus>>
    /\ RegFrame

\* monitor.ts:455-468  targets.find(...) over the targets taken at arrival;
\* the request waits for first content if one verifies, is refused if none
HandlerBody ==
    /\ hand.pc = "body"
    /\ LET found == {i \in 1..Len(hand.targets) :
                        verifyWecomAppSignature(hand.targets[i].token, hand.sig)}
       IN hand' = IF found = {}
                  THEN [hand EXCEPT !.pc = "done", !.status = 401]
                  ELSE [hand EXCEPT !.pc = "wait",
                            !.target = hand.targets[CHOOSE i \in found :
                                                       \A j \in found : i <= j].handle]
    /\ UNCHANGED <<webhookTargets, unregisterHooks, registrations, accountStatus>>
    /\ RegFrame

\* monitor.ts:661-677  the bounded wait ends and the reply is sent, encrypted
\* for the handler's target
HandlerDone ==
    /\ hand.pc = "wait"
    /\ hand' = [hand EXCEPT !.pc = "done", !.status = 200]
    /\ UNCHANGED <<webhookTargets, unregisterHooks, registrations, accountStatus>>
    /\ RegFrame

\* registrations and unregistrations while a request is handled
NextReg ==
    \/ \E account \in Accounts, raw \in ConfiguredPaths : RegisterTarget(account, raw)
    \/ \E h \in 1..MaxReg : CallUnregister(h)
    \/ \E path \in RequestPaths, sig \in {"t1", "t2", "bad"} : HandlerStart(path, sig)
    \/ HandlerBody
    \/ HandlerDone

SpecReg == InitReg /\ [][NextReg]_vars

\* channel.ts:235-289  gateway.startAccount for an account that
\* resolveWecomAppAccount finds configured or not, with webhookPath raw
startAccount(account, configured, raw) ==
    /\ IF ~configured
       THEN /\ accountStatus' = [accountStatus EXCEPT ![account] = "unconfigured"]
            /\ UNCHANGED <<webhookTargets, unregisterHooks, registrations>>
       ELSE /\ Len(registrations) < MaxReg
            /\ LET target == NormalizedTarget(Len(registrations) + 1, account, Trim(raw))
                   wt == Registering(webhookTargets, target)
               IN /\ registrations' = Append(registrations, target)
                  /\ webhookTargets' =
                        IF account \in DOMAIN unregisterHooks
                        THEN Unregistering(wt, registrations[unregisterHooks[account]])
                        ELSE wt
                  /\ unregisterHooks' =
                        [a \in DOMAIN unregisterHooks \cup {account} |->
                            IF a = account THEN target.handle ELSE unregisterHooks[a]]
            /\ accountStatus' = [accountStatus EXCEPT ![account] = "running"]
    /\ UNCHANGED hand
    /\ RegFrame

\* channel.ts:291-298  gateway.stopAccount
stopAccount(account) ==
    /\ IF account \in DOMAIN unregisterHooks
       THEN /\ webhookTargets' =
                  Unregistering(webhookTargets, registrations[unregisterHooks[account]])
            /\ unregisterHooks' =
                  [a \in DOMAIN unregisterHooks \ {account} |-> unregisterHooks[a]]
       ELSE UNCHANGED <<webhookTargets, unregisterHooks>>
    /\ accountStatus' = [accountStatus EXCEPT ![account] = "stopped"]
    /\ UNCHANGED <<registrations, hand>>
    /\ RegFrame

\* the gateway starts and stops accounts in any order
NextGateway ==
    \/ \E account \in Accounts, configured \in BOOLEAN, raw \in ConfiguredPaths :
          startAccount(account, configured, raw)
    \/ \E account \in Accounts : stopAccount(account)

SpecGateway == InitReg /\ [][NextGateway]_vars

(***************************************************************************)
(* The codec on its own: every plaintext of the set below, under each key, *)
(* receive id and random prefix                                            *)
(***************************************************************************)
\* every plaintext of at most 2 bytes, and one of each length up to MaxPlain,
\* which takes the plain buffer across the end of a padding block
Plaintexts ==
    UNION {[1..n -> {0, 255}] : n \in 0..2}
        \cup {[i \in 1..n |-> (37 * i) % 256] : n \in 3..MaxPlain}

ReceiveIds == {<<>>, <<99>>, <<99, 111>>}

RandomPrefixes == {[i \in 1..RandomLen |-> 0], FreshRandom}

InitCodec ==
    /\ runtime = FALSE
    /\ streams = <<>>
    /\ msgidToStreamId = <<>>
    /\ issued = {}
    /\ calls = 0
    /\ task = [id \in StreamIds |-> "none"]
    /\ reqs = [r \in Slots |-> IdleRequest]
    /\ HarnessOff
    /\ Registered
    /\ PathOff
    /\ cPc = "plain"
    /\ cKey \in {"k1", "k2"}
    /\ cRid \in ReceiveIds
    /\ cPlain \in Plaintexts
    /\ cRandom \in RandomPrefixes
    /\ cCipher = <<>>
    /\ cOut = DecodeFailure
    /\ RegOff

\* encryptWecomAppPlaintext({encodingAESKey, receiveId, plaintext})
Encrypt ==
    /\ cPc = "plain"
    /\ cCipher' = encryptWecomAppPlaintext(cKey, cRid, cPlain, cRandom)
    /\ cPc' = "sealed"
    /\ UNCHANGED <<runtime, streams, msgidToStreamId, issued, calls, task, reqs,
                   tPc, tText, tMax, tOut, pathState, cKey, cRid, cPlain, cRandom, cOut, regState>>

\* decryptWecomAppEncrypted({encodingAESKey, receiveId, encrypt})
Decrypt ==
    /\ cPc = "sealed"
    /\ cOut' = DecryptEnvelope(cKey, cRid, cCipher)
    /\ cPc' = "opened"
    /\ UNCHANGED <<runtime, streams, msgidToStreamId, issued, calls, task, reqs,
                   tPc, tText, tMax, tOut, pathState, cKey, cRid, cPlain, cRandom, cCipher, regState>>

NextCodec == Encrypt \/ Decrypt

SpecCodec == InitCodec /\ [][NextCodec]_vars

(***************************************************************************)
(* Properties                                                              *)
(***************************************************************************)
Answered(r) == reqs[r].pc = "done" /\ reqs[r].reply.status = 200

\* r is an answered delivery of a content message carrying message id m
ContentDelivery(r, m) ==
    /\ Answered(r)
    /\ reqs[r].in.msg.msgtype = "text"
    /\ reqs[r].in.msg.msgid = m

\* the handler of r called dispatchWecomAppMessage
Dispatched(r) == reqs[r].branch = "new" /\ task[reqs[r].streamId] # "none"

\* r1, the delivery that found m new, was answered before r2 arrived, and r2
\* arrived within STREAM_TTL_MS of r1
Redelivery(r1, r2, m) ==
    /\ ContentDelivery(r1, m)
    /\ ContentDelivery(r2, m)
    /\ reqs[r1].branch = "new"
    /\ r1 \in reqs[r2].after

\* C1 as stated: a content message delivered twice, one delivery after the other
\* and the second within the TTL of the first, is answered with the same stream id
\* both times and dispatched to the generation backend exactly once.
C1_SameStreamDispatchedOnce ==
    \A m \in MsgIds : \A r1, r2 \in Slots :
        Redelivery(r1, r2, m) =>
            /\ reqs[r2].reply.id = reqs[r1].reply.id
            /\ Cardinality({r \in {r1, r2} : Dispatched(r)}) = 1

\* C1 amended: both replies carry the same stream id and the second delivery
\* never dispatches; the first dispatches exactly when a generation runtime was
\* available to its handler (none is dispatched without a runtime).
C1_SameStreamDispatchedAtMostOnce ==
    \A m \in MsgIds : \A r1, r2 \in Slots :
        Redelivery(r1, r2, m) =>
            /\ reqs[r2].reply.id = reqs[r1].reply.id
            /\ reqs[r2].reply.type = "stream"
            /\ ~Dispatched(r2)
            /\ Dispatched(r1) <=> reqs[r1].core

C1_Witness ==
    \E r1, r2 \in Slots :
        /\ Redelivery(r1, r2, "m1")
        /\ reqs[r2].branch = "duplicate"
        /\ Dispatched(r1)
        /\ reqs[r2].reply.id = reqs[r1].streamId

\* C2: every entry of the msgid index points to a stream id present in the
\* Stream State table.
C2_IndexPointsToLiveStream ==
    \A m \in DOMAIN msgidToStreamId : msgidToStreamId[m] \in DOMAIN streams

\* a stream and its index entry were pruned while another entry is live
C2_Witness ==
    /\ issued \ DOMAIN streams # {}
    /\ DOMAIN msgidToStreamId # {}
    /\ \E r \in Slots : reqs[r].branch = "new" /\ reqs[r].streamId \notin DOMAIN streams

\* C3: while a Stream State stays in the table, its finished flag, once true,
\* stays true, and its error text, once set, stays set, under every callback.
C3_TerminalStaysTerminal ==
    [][\A id \in DOMAIN streams \cap DOMAIN streams' :
          /\ streams[id].finished => streams'[id].finished
          /\ streams[id].error # None => streams'[id].error # None]_vars

\* a stream that failed and whose task resolved afterwards
C3_Witness ==
    \E id \in DOMAIN streams :
        /\ streams[id].finished
        /\ streams[id].error # None
        /\ task[id] = "resolved"
        /\ calls >= 2

\* C4 as stated: the UTF-8 byte length of every Stream State's content is at most
\* STREAM_MAX_BYTES.
C4_ContentWithinCap ==
    \A id \in DOMAIN streams : ByteLength(streams[id].content) <= STREAM_MAX_BYTES

\* C5 as stated: when the text is longer than maxBytes, the retained tail starts at
\* the first byte of a character of the text, and the result is made of whole
\* characters of the text (it is a suffix of it).
C5_TruncationKeepsWholeChars ==
    (tPc = "out" /\ ByteLength(tText) > tMax) =>
        LET buf == Utf8(tText)
            start == TruncateStart(buf, tMax)
        IN /\ start = Len(buf) \/ buf[start + 1][2] = 0
           /\ IsSuffix(tOut, tText)

\* steps of a request
Arrives(r) == reqs[r].pc = "idle" /\ reqs'[r].pc # "idle"
Responds(r) == reqs[r].pc # "done" /\ reqs'[r].pc = "done"
PollAnswered(r) == Responds(r) /\ reqs'[r].branch = "poll"

\* the reply to a poll for a stream id that is not in the table
NotFoundReply(streamId) == Reply(200, "stream", streamId, TRUE, <<>>)

\* pruning has removed id and every index entry pointing to it
Pruned(id) ==
    /\ id \notin DOMAIN streams'
    /\ \A m \in DOMAIN msgidToStreamId' : msgidToStreamId'[m] # id

\* a pruned stream stays out of the table, and a poll for a stream id that is
\* not in the table is answered not-found
UnreachableOncePruned ==
    /\ \A id \in issued \ DOMAIN streams : id \notin DOMAIN streams'
    /\ \A r \in Slots :
          (PollAnswered(r) /\ reqs[r].in.msg.streamId \notin DOMAIN streams)
              => reqs'[r].reply = NotFoundReply(reqs[r].in.msg.streamId)

CreatedBeforeTtl(state) == now - state.createdAt > STREAM_TTL_MS
UpdatedBeforeTtl(state) == now - state.updatedAt > STREAM_TTL_MS

\* C6 as stated: the pruning run at a request's arrival makes every Stream State
\* older than the TTL (created more than STREAM_TTL_MS ago) unreachable: it is not
\* in the table, no index entry points to it, a poll for it is answered not-found.
C6_OldStreamUnreachable ==
    [][/\ (\E r \in Slots : Arrives(r)) =>
             \A id \in DOMAIN streams : CreatedBeforeTtl(streams[id]) => Pruned(id)
       /\ UnreachableOncePruned]_vars

\* C6 amended: the same of every Stream State last updated more than
\* STREAM_TTL_MS ago.
C6_StaleStreamUnreachable ==
    [][/\ (\E r \in Slots : Arrives(r)) =>
             \A id \in DOMAIN streams : UpdatedBeforeTtl(streams[id]) => Pruned(id)
       /\ UnreachableOncePruned]_vars

\* a poll for a stream that was issued and pruned was answered not-found
C6_Witness ==
    \E r \in Slots :
        /\ Answered(r)
        /\ reqs[r].branch = "poll"
        /\ reqs[r].in.msg.streamId \in issued \ DOMAIN streams
        /\ reqs[r].reply = NotFoundReply(reqs[r].in.msg.streamId)
        /\ DOMAIN msgidToStreamId = {}

\* the response of a new-message request r sent while its Stream State holds no
\* content and no error
RespondsWithoutOutput(r) ==
    /\ Responds(r)
    /\ reqs'[r].branch = "new"
    /\ reqs'[r].streamId \in DOMAIN streams'
    /\ streams'[reqs'[r].streamId].content = <<>>
    /\ streams'[reqs'[r].streamId].error = None

\* the new-message branch allocates a stream id never issued before and stores
\* the new Stream State under it
AllocatesFreshStream(r) ==
    (reqs[r].pc = "body" /\ reqs'[r].branch = "new") =>
        /\ reqs'[r].streamId \notin issued
        /\ reqs'[r].streamId \notin DOMAIN streams
        /\ reqs'[r].streamId \in DOMAIN streams'
        /\ streams'[reqs'[r].streamId].streamId = reqs'[r].streamId
        /\ streams'[reqs'[r].streamId].msgid = reqs[r].in.msg.msgid

\* C7 as stated: a new content message answered while the backend has produced no
\* content and no error gets a stream reply with finish = false, content = "" and
\* the freshly allocated stream id, the key of the new Stream State.
C7_PlaceholderIsEmpty ==
    [][\A r \in Slots :
          /\ AllocatesFreshStream(r)
          /\ RespondsWithoutOutput(r) =>
                reqs'[r].reply = Reply(200, "stream", reqs'[r].streamId, FALSE, <<>>)]_vars

\* C7 amended: the reply's content is the fixed placeholder text (monitor.ts:232),
\* not the empty string.
C7_PlaceholderReply ==
    [][\A r \in Slots :
          /\ AllocatesFreshStream(r)
          /\ RespondsWithoutOutput(r) =>
                reqs'[r].reply =
                    Reply(200, "stream", reqs'[r].streamId, FALSE, PlaceholderText)]_vars

\* the second stream's request waited out the bound and got the placeholder
C7_Witness ==
    \E r \in Slots :
        /\ Answered(r)
        /\ reqs[r].branch = "new"
        /\ reqs[r].streamId = 2
        /\ reqs[r].streamId \in DOMAIN streams
        /\ streams[reqs[r].streamId].content = <<>>
        /\ ~streams[reqs[r].streamId].finished
        /\ reqs[r].reply = buildStreamPlaceholderReply(2)

\* C8 as stated: a poll for a stream id that is in the table is answered with
\* exactly that state's content and finished flag, and the same stream id.
C8_PollReturnsCurrentState ==
    [][\A r \in Slots :
          (PollAnswered(r) /\ reqs[r].in.msg.streamId \in DOMAIN streams) =>
              LET state == streams[reqs[r].in.msg.streamId]
              IN reqs'[r].reply =
                    Reply(200, "stream", reqs[r].in.msg.streamId, state.finished, state.content)]_vars

\* C9: a poll for a stream id that is not in the table is answered 200 with
\* finish = true and empty content, and neither its arrival nor its response adds
\* a Stream State or an index entry.
C9_UnknownPollIsFinishedEmpty ==
    [][\A r \in Slots :
          /\ (Arrives(r) /\ reqs'[r].in.msg.msgtype = "stream") =>
                /\ DOMAIN streams' \subseteq DOMAIN streams
                /\ DOMAIN msgidToStreamId' \subseteq DOMAIN msgidToStreamId
          /\ (PollAnswered(r) /\ reqs[r].in.msg.streamId \notin DOMAIN streams) =>
                /\ reqs'[r].reply = NotFoundReply(reqs[r].in.msg.streamId)
                /\ streams' = streams
                /\ msgidToStreamId' = msgidToStreamId]_vars

\* a poll for a stream id never issued was answered
C9_Witness ==
    \E r \in Slots :
        /\ Answered(r)
        /\ reqs[r].branch = "poll"
        /\ reqs[r].in.msg.streamId \notin issued
        /\ reqs[r].reply.finish
        /\ reqs[r].reply.content = <<>>

\* C10: a request that entered the new message branch is eventually answered 200,
\* whatever the generation backend does.
C10_NewMessageAnswered ==
    \A r \in Slots : (reqs[r].branch = "new") ~> Answered(r)

\* a new message was answered although the backend made no callback and its task
\* has not settled
C10_Witness ==
    \E r \in Slots :
        /\ Answered(r)
        /\ reqs[r].branch = "new"
        /\ task[reqs[r].streamId] = "running"
        /\ calls = 0

\* the requests whose new message branch created stream id
Origin(id) == {q \in Slots : reqs[q].branch = "new" /\ reqs[q].streamId = id}

\* the response of the request that created stream id has been sent
OriginAnswered(id) == \E q \in Origin(id) : reqs[q].pc = "done"

\* a callback made after the originating response, for a stream in the table, is
\* applied: a resolved task finishes it, a rejected task fails it, a hook updates it
LateCallbackApplied ==
    \A id \in DOMAIN streams :
        (OriginAnswered(id) /\ task[id] = "running") =>
            /\ task'[id] = "resolved" =>
                    /\ id \in DOMAIN streams'
                    /\ streams'[id].finished
                    /\ streams'[id].updatedAt = now
            /\ task'[id] = "rejected" =>
                    /\ id \in DOMAIN streams'
                    /\ streams'[id].finished
                    /\ streams'[id].error # None
            /\ (calls' = calls + 1 /\ task' = task
                    /\ \A j \in StreamIds \ {id} : task[j] # "running") =>
                    /\ id \in DOMAIN streams'
                    /\ streams'[id].updatedAt = now
                    /\ streams'[id].content # <<>>

\* a poll answered for a stream in the table shows the state as it is: its
\* finished flag, and its content (all of it when it is within the cap)
PollShowsState(r) ==
    (PollAnswered(r) /\ reqs[r].in.msg.streamId \in DOMAIN streams) =>
        LET state == streams[reqs[r].in.msg.streamId]
        IN /\ reqs'[r].reply.status = 200
           /\ reqs'[r].reply.type = "stream"
           /\ reqs'[r].reply.id = reqs[r].in.msg.streamId
           /\ reqs'[r].reply.finish = state.finished
           /\ state.content # <<>> => reqs'[r].reply.content # <<>>
           /\ ByteLength(state.content) <= STREAM_MAX_BYTES =>
                  reqs'[r].reply.content = state.content

\* C11: a callback (onChunk, onError, task resolved or rejected) made after the
\* originating response was sent, while the stream is in the table, is applied to
\* the Stream State, and every poll answered for the stream shows the state as
\* the callbacks left it.
C11_LateCallbacksVisible ==
    [][LateCallbackApplied /\ \A r \in Slots : PollShowsState(r)]_vars

\* the originating request was answered with the placeholder, and a later poll
\* was answered with content and finish = true
C11_Witness ==
    \E q, r \in Slots :
        /\ reqs[q].branch = "new" /\ reqs[q].pc = "done"
        /\ reqs[q].reply = buildStreamPlaceholderReply(reqs[q].streamId)
        /\ reqs[r].branch = "poll" /\ reqs[r].pc = "done"
        /\ reqs[r].reply.id = reqs[q].streamId
        /\ reqs[r].reply.finish
        /\ reqs[r].reply.content # <<>>
        /\ task[reqs[q].streamId] = "resolved"

\* a step that records a failure on stream id: onError or the rejected dispatch
Fails(id) ==
    /\ id \in DOMAIN streams /\ id \in DOMAIN streams'
    /\ streams'[id].error # None
    /\ streams'[id].error # streams[id].error

\* the failure is kept in the Stream State and touches no request
FailureRecorded ==
    \A id \in StreamIds :
        Fails(id) =>
            /\ streams'[id].finished
            /\ streams'[id].content =
                   IF streams[id].content = <<>>
                   THEN ErrorPrefix \o streams'[id].error[1]
                   ELSE streams[id].content
            /\ reqs' = reqs

\* a poll for a failed stream is answered as any other: 200, the stream reply,
\* finished, with the stored content
FailureServed(r) ==
    (/\ PollAnswered(r)
     /\ reqs[r].in.msg.streamId \in DOMAIN streams
     /\ streams[reqs[r].in.msg.streamId].error # None) =>
        LET state == streams[reqs[r].in.msg.streamId]
        IN /\ reqs'[r].reply.status = 200
           /\ reqs'[r].reply.type = "stream"
           /\ reqs'[r].reply.finish
           /\ reqs'[r].reply.content # <<>>
           /\ ByteLength(state.content) <= STREAM_MAX_BYTES =>
                  reqs'[r].reply.content = state.content

\* C12: a failure of the generation backend (onError, or the dispatch promise
\* rejecting) changes no request: every request that is answered gets its 200
\* reply; the failure is stored as error text with finished = true and, when the
\* content was empty, content "Error: " + description; a later poll returns
\* that content in an ordinary finished stream reply.
C12_FailureStaysInStream ==
    [][/\ FailureRecorded
       /\ \A r \in Slots : FailureServed(r)
       /\ \A r \in Slots : Responds(r) => reqs'[r].reply.status = 200]_vars

\* a generation that failed with no content, its originating request answered
\* with 200, and a poll answered with the error description as content
C12_Witness ==
    \E q, r \in Slots :
        /\ reqs[q].branch = "new" /\ reqs[q].pc = "done"
        /\ reqs[q].reply.status = 200
        /\ task[reqs[q].streamId] = "rejected"
        /\ reqs[r].branch = "poll" /\ reqs[r].pc = "done"
        /\ reqs[r].reply.id = reqs[q].streamId
        /\ reqs[r].reply.finish
        /\ reqs[r].reply.content = ErrorPrefix \o <<"a">>

\* the statuses of a request that is turned down
RejectionStatuses == {400, 401, 405, 413, 500}

\* the step creates a Stream State or an index entry, or starts a generation
CreatesState ==
    \/ ~(DOMAIN streams' \subseteq DOMAIN streams)
    \/ ~(DOMAIN msgidToStreamId' \subseteq DOMAIN msgidToStreamId)
    \/ \E id \in StreamIds : task[id] # "running" /\ task'[id] = "running"

\* request in is a POST with a signature, in its query or in its body, that
\* verifies with the token of a registered target whose key decrypts it
Authentic(in) ==
    /\ in.method = "POST"
    /\ \E i \in 1..Len(webhookTargets[HookPath]), sig \in {in.sig, in.bodySig} \ {NoSig} :
          /\ verifyWecomAppSignature(webhookTargets[HookPath][i].token, sig)
          /\ decryptWecomAppEncrypted(webhookTargets[HookPath][i].encodingAESKey, in.key)

\* C13: a step that creates a Stream State or a Deduplication Index entry, or
\* starts a generation, is the step of a POST request whose signature verifies
\* with a registered target's token and whose ciphertext decrypts with that
\* target's key; the step that answers a request with 400, 401, 405, 413 or 500
\* creates nothing and starts nothing, and such a request has no stream.
C13_OnlyAuthenticCreates ==
    [][/\ CreatesState =>
             \E r \in Slots :
                 /\ reqs[r].pc = "body"
                 /\ reqs'[r].branch = "new"
                 /\ Authentic(reqs[r].in)
                 /\ reqs'[r].reply.status \notin RejectionStatuses
       /\ \A r \in Slots :
             (Responds(r) /\ reqs'[r].reply.status \in RejectionStatuses) =>
                 /\ ~CreatesState
                 /\ reqs'[r].streamId = NoStreamId
                 /\ reqs'[r].dispatchedFor = 0]_vars

\* a delivery with a verifying signature and a ciphertext that does not decrypt
\* was answered 400 and left nothing, beside an authentic delivery that started
\* a generation
C13_Witness ==
    \E q, a \in Slots :
        /\ reqs[q].pc = "done" /\ reqs[q].reply.status = 400
        /\ reqs[q].in.body = "ok" /\ reqs[q].in.query /\ reqs[q].in.sig = "t1"
        /\ reqs[q].in.key = "bad"
        /\ reqs[a].branch = "new" /\ DOMAIN streams = {reqs[a].streamId}
        /\ task[reqs[a].streamId] = "running"

\* the targets registered for the request path whose token verifies sig
Verifying(sig) ==
    {i \in 1..Len(webhookTargets[HookPath]) :
        verifyWecomAppSignature(webhookTargets[HookPath][i].token, sig)}

\* C14: a handshake GET is answered 200 only when timestamp, nonce, signature and
\* echostr are all present, a registered target's token verifies the signature
\* and its key decrypts the challenge, and the body is then the decrypted
\* challenge as plain text; with a parameter missing the answer is 400, and with
\* no target's token verifying it is 401.
C14_HandshakeGate ==
    \A r \in Slots :
        (reqs[r].pc = "done" /\ reqs[r].in.method = "GET") =>
            LET in == reqs[r].in
                reply == reqs[r].reply
            IN /\ reply.status = 200 =>
                     /\ in.query /\ in.echostr
                     /\ \E i \in Verifying(in.sig) :
                           decryptWecomAppEncrypted(webhookTargets[HookPath][i].encodingAESKey, in.key)
                     /\ reply.type = "plain"
                     /\ reply.content = in.challenge
               /\ (~in.query \/ ~in.echostr) => reply.status = 400
               /\ (in.query /\ in.echostr /\ Verifying(in.sig) = {}) => reply.status = 401
               /\ reqs[r].streamId = NoStreamId

\* a handshake with every parameter and a verifying signature was answered with
\* the decrypted challenge
C14_Witness ==
    \E r \in Slots :
        /\ reqs[r].pc = "done" /\ reqs[r].in.method = "GET"
        /\ reqs[r].in.sig = "t1" /\ reqs[r].in.key = "k1"
        /\ reqs[r].reply.status = 200
        /\ reqs[r].reply.content = <<"a", "a">>

\* the first, in registration order, of a non-empty set of targets
FirstOf(found) == CHOOSE i \in found : \A j \in found : i <= j

\* C15: a POST delivery (its signature in the query) that is not turned down is
\* handled with the first target in registration order whose token verifies the
\* signature: that target's credentials seal the reply and the generation is
\* dispatched for that target's account; a delivery that no target's token
\* verifies is answered 401.
C15_FirstVerifyingTarget ==
    \A r \in Slots :
        LET in == reqs[r].in
            found == Verifying(in.sig)
        IN (in.method = "POST" /\ in.bodySig = NoSig) =>
              /\ (reqs[r].pc \in {"wait", "done"} /\ reqs[r].branch # "rejected") =>
                    /\ found # {}
                    /\ reqs[r].target = FirstOf(found)
                    /\ reqs[r].pc = "done" => reqs[r].sealedBy = FirstOf(found)
                    /\ reqs[r].dispatchedFor \in {0, FirstOf(found)}
                    /\ (reqs[r].branch = "new" /\ reqs[r].core) =>
                          reqs[r].dispatchedFor = FirstOf(found)
              /\ (reqs[r].pc = "done" /\ in.query /\ in.body = "ok" /\ found = {}) =>
                    reqs[r].reply.status = 401

\* a delivery whose signature two targets verify was dispatched for the first of
\* them and answered with a reply sealed with its credentials
C15_Witness ==
    \E r \in Slots :
        /\ Cardinality(Verifying(reqs[r].in.sig)) > 1
        /\ reqs[r].pc = "done" /\ reqs[r].branch = "new"
        /\ reqs[r].target = 1 /\ reqs[r].sealedBy = 1 /\ reqs[r].dispatchedFor = 1

\* the step changes the tables by the TTL pruning and by nothing else: a stream
\* is dropped exactly when it was last updated more than the TTL ago, an index
\* entry exactly when its stream is dropped, and what stays is as it was
OnlyPrunes ==
    /\ DOMAIN streams' = {id \in DOMAIN streams : ~(streams[id].updatedAt < now - STREAM_TTL_MS)}
    /\ \A id \in DOMAIN streams' : streams'[id] = streams[id]
    /\ DOMAIN msgidToStreamId' =
          {m \in DOMAIN msgidToStreamId : msgidToStreamId[m] \in DOMAIN streams'}
    /\ \A m \in DOMAIN msgidToStreamId' : msgidToStreamId'[m] = msgidToStreamId[m]

\* the step changes nothing of the generations and nothing of a request but r
OthersUntouched(r) ==
    /\ webhookTargets' = webhookTargets
    /\ task' = task /\ issued' = issued /\ calls' = calls /\ runtime' = runtime
    /\ \A q \in Slots \ {r} : reqs'[q] = reqs[q]

\* C16: a request answered with 400, 401, 405, 413 or 500 changes nothing but
\* what the pruning at its start removes: the step in which it arrives only
\* prunes, the step in which it is turned down after the body was read leaves the
\* streams and the index as they are, and neither touches the registry, a
\* generation or another request.
C16_FailureChangesNothing ==
    [][\A r \in Slots :
          /\ Arrives(r) => OnlyPrunes /\ OthersUntouched(r)
          /\ (Responds(r) /\ reqs'[r].reply.status \in RejectionStatuses) =>
                /\ OthersUntouched(r)
                /\ reqs[r].pc = "idle" => OnlyPrunes
                /\ reqs[r].pc = "body" =>
                      /\ streams' = streams /\ msgidToStreamId' = msgidToStreamId
                      /\ reqs'[r].in = reqs[r].in]_vars

\* a request was turned down at its arrival, which pruned the stream of an
\* earlier delivery, whose generation is still running
C16_Witness ==
    \E q, r \in Slots :
        /\ reqs[r].pc = "done" /\ reqs[r].reply.status = 405
        /\ reqs[q].branch = "new" /\ reqs[q].pc = "done"
        /\ reqs[q].streamId \notin DOMAIN streams
        /\ msgidToStreamId = << >>
        /\ task[reqs[q].streamId] = "running"

\* the status of request in by the first failing check in the order: method,
\* body size, body shape, signature, key material, decryption; 0: none fails.
\* The signature is the one the request carries: its query's, if it has one
ClaimedStatus(in) ==
    LET found == IF in.query THEN Verifying(in.sig) ELSE {}
        target == webhookTargets[HookPath][FirstOf(found)]
    IN IF in.method \notin {"GET", "POST"} THEN 405
       ELSE IF in.body = "large" THEN 413
       ELSE IF in.body \in {"empty", "badjson", "noencrypt"} THEN 400
       ELSE IF found = {} THEN 401
       ELSE IF ~target.configured \/ target.token = "" \/ target.encodingAESKey = "" THEN 500
       ELSE IF ~decryptWecomAppEncrypted(target.encodingAESKey, in.key) THEN 400
       ELSE 0

\* C17: the status of a request that is turned down (not a handshake, no
\* signature in its body) is that of the first failing check in the order:
\* method other than GET and POST -> 405 with Allow: GET, POST; body over the
\* size cap -> 413; empty or wrongly shaped body or no ciphertext -> 400; no
\* target's signature verifies -> 401; target without key material -> 500;
\* decryption failure -> 400.
C17_StatusByFirstFailingCheck ==
    \A r \in Slots :
        LET in == reqs[r].in
        IN (reqs[r].pc = "done" /\ in.method # "GET" /\ in.bodySig = NoSig) =>
              /\ ClaimedStatus(in) # 0 => reqs[r].reply.status = ClaimedStatus(in)
              /\ ClaimedStatus(in) = 0 => reqs[r].reply.status = 200
              /\ reqs[r].reply.status = 405 => reqs[r].reply.allow = {"GET", "POST"}

\* C18: a POST delivery, in either body format, is verified with the signature,
\* timestamp and nonce its body carries, and with the query's only when the body
\* carries none: when the body's values verify the delivery is authenticated,
\* as the first target they verify for, whatever the query holds; when the
\* body's values do not verify it is turned down with 401.
C18_BodyValuesTakePrecedence ==
    \A r \in Slots :
        LET in == reqs[r].in
        IN (/\ reqs[r].pc \in {"wait", "done"}
            /\ in.method = "POST" /\ in.body = "ok"
            /\ in.bodySig # NoSig) =>
              IF Verifying(in.bodySig) # {}
              THEN /\ reqs[r].branch # "rejected"
                   /\ reqs[r].target = FirstOf(Verifying(in.bodySig))
              ELSE reqs[r].reply.status = 401

\* request r, an authenticated and decrypted event notification, is answered
EventAnswered(r) ==
    /\ Responds(r)
    /\ reqs[r].in.msg.msgtype = "event"
    /\ reqs'[r].branch # "rejected"

\* C19 (as the code has it): an authenticated event notification creates no
\* Stream State and starts no generation, and is answered 200 with a reply sealed
\* with its target's credentials: the stream reply of a duplicate when its
\* message id is in the Deduplication Index, with no active send, and the empty
\* acknowledgment otherwise; an acknowledged event makes one active-send call
\* when it is a subscribe or enter_chat event, its target has welcome text and
\* can send actively and the event names its sender, and none otherwise.
C19_EventAcknowledged ==
    [][\A r \in Slots :
          EventAnswered(r) =>
              LET msg == reqs[r].in.msg
                  target == webhookTargets[HookPath][reqs'[r].target]
              IN /\ ~CreatesState
                 /\ streams' = streams /\ msgidToStreamId' = msgidToStreamId
                 /\ reqs'[r].streamId = NoStreamId /\ reqs'[r].dispatchedFor = 0
                 /\ reqs'[r].reply.status = 200
                 /\ reqs'[r].sealedBy = reqs'[r].target
                 /\ IF msg.msgid # NoMsgId /\ msg.msgid \in DOMAIN msgidToStreamId
                    THEN /\ reqs'[r].reply.type = "stream"
                         /\ reqs'[r].reply.id = msgidToStreamId[msg.msgid]
                         /\ ~reqs'[r].sent
                    ELSE /\ reqs'[r].reply.type = "ack"
                         /\ reqs'[r].reply.content = <<>>
                         /\ reqs'[r].sent <=>
                               /\ msg.event \in {"subscribe", "enter_chat"}
                               /\ target.welcomeText /\ target.canSendActive
                               /\ msg.from]_vars

\* a subscribe event was acknowledged and its welcome sent, beside the stream of
\* an earlier delivery, which it left alone
C19_Witness ==
    \E q, r \in Slots :
        /\ reqs[r].pc = "done" /\ reqs[r].branch = "event"
        /\ reqs[r].in.msg.event = "subscribe"
        /\ reqs[r].reply.type = "ack" /\ reqs[r].sent
        /\ reqs[q].branch = "new" /\ DOMAIN streams = {reqs[q].streamId}

\* C19 as stated: every authenticated event notification is answered 200 with
\* the empty acknowledgment, has no stream and no generation, and a subscribe or
\* enter_chat event for a target with welcome text makes one active-send call.
C19_EveryEventAcknowledged ==
    \A r \in Slots :
        (/\ reqs[r].pc = "done"
         /\ reqs[r].in.msg.msgtype = "event"
         /\ reqs[r].branch # "rejected") =>
            /\ reqs[r].reply.status = 200
            /\ reqs[r].reply.type = "ack"
            /\ reqs[r].streamId = NoStreamId /\ reqs[r].dispatchedFor = 0
            /\ (/\ reqs[r].in.msg.event \in {"subscribe", "enter_chat"}
                /\ webhookTargets[HookPath][reqs[r].target].welcomeText) => reqs[r].sent

\* path p without its leading slash and its trailing slashes
SlashCore(p) ==
    LET body == IF p # <<>> /\ p[1] = "/" THEN Tail(p) ELSE p
        inner == {i \in 1..Len(body) : body[i] # "/"}
    IN IF inner = {} THEN <<>>
       ELSE SubSeq(body, 1, CHOOSE i \in inner : \A j \in inner : j <= i)

\* p and q differ only by a missing leading slash or by trailing slashes
Variants(p, q) ==
    /\ \A i \in 1..Len(p) : ~IsSpace(p[i])
    /\ \A i \in 1..Len(q) : ~IsSpace(q[i])
    /\ SlashCore(p) = SlashCore(q)

\* C20: the key a target is registered under is a fixed point of the
\* normalization (normalize(normalize(p)) = normalize(p)), and a target
\* registered under a path is found by a request to any path that differs from
\* it only by a missing leading slash or by trailing slashes.
C20_OneCanonicalForm ==
    /\ pPc \in {"registered", "resolved"} => normalizeWebhookPath(pKey) = pKey
    /\ (pPc = "resolved" /\ Variants(pRaw, pUrl)) => pHit

\* C22: decrypting encrypt(key, receiveId, P) with the same key and receive id
\* succeeds and returns exactly P, for every plaintext, key, receive id and
\* random prefix.
C22_CodecRoundTrip ==
    cPc = "opened" => cOut.ok /\ cOut.plaintext = cPlain

\* a plaintext whose buffer fills its padding block exactly was encrypted to two
\* blocks and decrypted
C22_Witness ==
    /\ cPc = "opened"
    /\ RandomLen + LengthLen + Len(cPlain) + Len(cRid) = PadBlock
    /\ Len(cCipher) > 4 * ((PadBlock + 2) \div 3)
    /\ cOut.plaintext = cPlain /\ cPlain # <<>>

\* the reply a plaintext carries, as the fields of a response
Carries(plaintext, reply) ==
    LET parsed == JsonParse(plaintext)
    IN /\ parsed.type \in {"ack", "stream"}
       /\ parsed.type = reply.type
       /\ parsed.id = reply.id
       /\ parsed.finish = reply.finish
       /\ parsed.content = reply.content

\* C21: the body of every 200 response to a POST is an envelope whose timestamp
\* and nonce are the ones the request was verified with (the body's in the
\* tag-delimited format when it carries them, else the query's), whose
\* msgsignature is the signature of (token, timestamp, nonce, encrypt) under the
\* token of the target that authenticated the request, and whose encrypt
\* decrypts under that target's key and receive id to the empty acknowledgment
\* or to the stream reply {id, finish, content} of the response.
C21_ReplyEnvelope ==
    \A r \in Slots :
        (reqs[r].pc = "done" /\ reqs[r].in.method = "POST" /\ reqs[r].reply.status = 200) =>
            LET in == reqs[r].in
                env == reqs[r].envelope
                inBody == in.format = "xml" /\ in.bodySig # NoSig
                target == webhookTargets[HookPath][
                              FirstOf(Verifying(IF inBody THEN in.bodySig ELSE in.sig))]
                opened == DecryptEnvelope(target.encodingAESKey, target.receiveId, env.encrypt)
            IN /\ env.timestamp = IF inBody THEN in.bodyTimestamp ELSE in.timestamp
               /\ env.nonce = IF inBody THEN in.bodyNonce ELSE in.nonce
               /\ env.timestamp = reqs[r].msgTimestamp /\ env.nonce = reqs[r].msgNonce
               /\ env.msgsignature =
                     computeWecomAppMsgSignature(target.token, env.timestamp, env.nonce, env.encrypt)
               /\ opened.ok
               /\ Carries(opened.plaintext, reqs[r].reply)

\* a delivery verified with the values of its body, the query's signature being
\* wrong, was answered with a stream reply with content, stamped with the body's
\* timestamp and nonce
C21_Witness ==
    \E r \in Slots :
        /\ reqs[r].pc = "done" /\ reqs[r].reply.status = 200
        /\ reqs[r].in.sig = "bad" /\ reqs[r].in.bodySig = "t1"
        /\ reqs[r].envelope.timestamp = "T2" /\ reqs[r].envelope.nonce = "N2"
        /\ reqs[r].reply.type = "stream" /\ reqs[r].reply.content # <<>>
        /\ DecryptEnvelope("k1", <<99, 1>>, reqs[r].envelope.encrypt).ok

\* request r is a delivery of the content message with id m
DeliveryOf(r, m) ==
    /\ reqs[r].in.method = "POST"
    /\ reqs[r].in.msg.msgtype \notin {"stream", "event"}
    /\ reqs[r].in.msg.msgid = m

\* the step takes request r, a delivery of message m, through its duplicate check
\* while another delivery of m is being handled
ChecksDuplicate(r, m) ==
    /\ DeliveryOf(r, m)
    /\ reqs[r].pc = "body" /\ reqs'[r].pc # "body"
    /\ reqs'[r].branch # "rejected"
    /\ \E q \in Slots \ {r} : DeliveryOf(q, m) /\ reqs[q].pc \in {"body", "wait"}

\* the deliveries of m that have created a Stream State
CreatorsOf(m) == {q \in Slots : DeliveryOf(q, m) /\ reqs[q].branch = "new"}

\* C23 as stated: of deliveries of one message id handled concurrently, the first
\* through its duplicate check creates the Stream State and invokes the
\* generation backend, and every other one is a duplicate answered with that
\* stream id.
C23_ExactlyOneCreatesAndDispatches ==
    [][\A r \in Slots, m \in MsgIds :
          ChecksDuplicate(r, m) =>
              IF CreatorsOf(m) = {}
              THEN /\ reqs'[r].branch = "new"
                   /\ reqs'[r].streamId \in DOMAIN streams' \ DOMAIN streams
                   /\ task'[reqs'[r].streamId] = "running"
              ELSE /\ reqs'[r].branch = "duplicate"
                   /\ \E q \in CreatorsOf(m) : reqs'[r].reply.id = reqs[q].streamId
                   /\ ~CreatesState]_vars

\* C23 amended: a delivery of message id m that passes its duplicate check while
\* a Stream State created for m is in the table is a duplicate: it creates
\* nothing, starts no generation and is answered with that stream id; one that
\* finds none creates the Stream State and its index entry, and starts the
\* generation exactly when a runtime is available; the creator is answered with
\* the id of the stream it created.
C23_OneLiveStreamPerMessage ==
    [][\A r \in Slots :
          /\ \A m \in MsgIds :
                ChecksDuplicate(r, m) =>
                    LET live == {q \in CreatorsOf(m) : reqs[q].streamId \in DOMAIN streams}
                    IN IF live = {}
                       THEN /\ reqs'[r].branch = "new"
                            /\ reqs'[r].streamId \in DOMAIN streams' \ DOMAIN streams
                            /\ m \in DOMAIN msgidToStreamId'
                            /\ msgidToStreamId'[m] = reqs'[r].streamId
                            /\ (task'[reqs'[r].streamId] = "running") <=> runtime
                            /\ task'[reqs'[r].streamId] \in {"running", "none"}
                       ELSE /\ reqs'[r].branch = "duplicate"
                            /\ Cardinality(live) = 1
                            /\ \A q \in live : reqs'[r].reply.id = reqs[q].streamId
                            /\ ~CreatesState
                            /\ reqs'[r].dispatchedFor = 0
          /\ (Responds(r) /\ reqs'[r].branch = "new") =>
                reqs'[r].reply.id = reqs'[r].streamId]_vars

\* two deliveries of one message id in flight together: the one that created the
\* stream is still in its bounded wait, the other was answered as a duplicate
\* with the same stream id
C23_Witness ==
    \E q, r \in Slots :
        /\ q # r /\ DeliveryOf(q, "m1") /\ DeliveryOf(r, "m1")
        /\ reqs[q].branch = "new" /\ reqs[q].pc = "wait"
        /\ reqs[r].branch = "duplicate" /\ reqs[r].pc = "done"
        /\ reqs[r].reply.id = reqs[q].streamId
        /\ task[reqs[q].streamId] = "running"
        /\ Cardinality(DOMAIN streams) = 1

(***************************************************************************)
(* C24  Stream State table and Deduplication Index in lockstep             *)
(***************************************************************************)
\* the live Stream States carrying message id m
LiveFor(m) == {s \in DOMAIN streams : streams[s].msgid = m}

\* C24: in every reachable state at most one live Stream State carries any
\* given message id, and a live Stream State with message id m and stream id s
\* exists if and only if the Deduplication Index maps m to s
C24_TableAndIndexInLockstep ==
    \A m \in MsgIds :
        /\ Cardinality(LiveFor(m)) <= 1
        /\ \A s \in StreamIds :
              s \in LiveFor(m) <=> (m \in DOMAIN msgidToStreamId /\ msgidToStreamId[m] = s)

\* two messages have a live state each, both indexed
C24_Witness ==
    /\ \A m \in MsgIds : LiveFor(m) # {} /\ m \in DOMAIN msgidToStreamId
    /\ Cardinality(DOMAIN streams) = 2

(***************************************************************************)
(* C25  Duplicate deliveries                                               *)
(***************************************************************************)
\* request r is answered in the duplicate branch
DuplicateAnswered(r) ==
    reqs[r].pc = "body" /\ reqs'[r].pc = "done" /\ reqs'[r].branch = "duplicate"

\* C25: a duplicate delivery is answered with the existing state of the mapped
\* stream (the placeholder if no content has arrived yet, otherwise the stream's
\* current content and finished flag) and generation is not invoked again
C25_DuplicateGetsExistingResult ==
    [][\A r \in Slots :
          DuplicateAnswered(r) =>
              LET m == reqs[r].in.msg.msgid
              IN /\ m \in DOMAIN msgidToStreamId
                 /\ msgidToStreamId[m] \in DOMAIN streams
                 /\ reqs'[r].reply =
                        IF streams[msgidToStreamId[m]].content = <<>>
                        THEN buildStreamPlaceholderReply(msgidToStreamId[m])
                        ELSE buildStreamReplyFromState(streams[msgidToStreamId[m]])
                 /\ task' = task /\ issued' = issued /\ streams' = streams]_vars

(***************************************************************************)
(* C26  Classification priority                                            *)
(***************************************************************************)
\* the branches a decrypted message qualifies for, taken one by one
Qualifies(msg, b) ==
    CASE b = "poll" -> msg.msgtype = "stream"
      [] b = "duplicate" -> msg.msgid # NoMsgId /\ msg.msgid \in DOMAIN msgidToStreamId
      [] b = "event" -> msg.msgtype = "event"
      [] b = "new" -> msg.msgtype \notin {"stream", "event"}

Priority == <<"poll", "duplicate", "event", "new">>

\* the highest-priority branch the message qualifies for
Highest(msg) ==
    Priority[CHOOSE i \in 1..4 :
                /\ Qualifies(msg, Priority[i])
                /\ \A j \in 1..(i - 1) : ~Qualifies(msg, Priority[j])]

\* request r, authenticated and decrypted, is classified and handled
Classified(r) ==
    /\ reqs[r].pc = "body" /\ reqs'[r].pc # "body"
    /\ LateStatus(reqs[r].in) = 0

\* what each branch, and no other, does with the message of request r
HandledAs(r, b) ==
    LET msg == reqs[r].in.msg
    IN CASE b = "poll" ->
              /\ reqs'[r].reply = PollReply(msg, streams, now)
              /\ streams' = streams /\ ~reqs'[r].sent
         [] b = "duplicate" ->
              /\ reqs'[r].reply = buildStreamPlaceholderReply(msgidToStreamId[msg.msgid])
              /\ streams' = streams /\ ~reqs'[r].sent
         [] b = "event" ->
              /\ reqs'[r].reply = AckReply
              /\ streams' = streams
              /\ reqs'[r].sent = SendsWelcome(msg, TargetOf(reqs[r].in))
         [] b = "new" ->
              /\ DOMAIN streams' # DOMAIN streams
              /\ reqs'[r].streamId \in DOMAIN streams' \ DOMAIN streams
              /\ ~reqs'[r].sent

\* C26: a decrypted message is handled by the highest-priority branch it
\* qualifies for, in the order poll > duplicate > event > new content message,
\* and by that branch only
C26_ClassificationPriority ==
    [][\A r \in Slots :
          Classified(r) => HandledAs(r, Highest(reqs[r].in.msg))]_vars

\* an event carrying an indexed message id has been answered with the
\* placeholder of the mapped stream
C26_Witness ==
    \E r \in Slots :
        /\ reqs[r].pc = "done"
        /\ reqs[r].in.msg.msgtype = "event"
        /\ reqs[r].in.msg.msgid \in DOMAIN msgidToStreamId
        /\ reqs[r].reply = buildStreamPlaceholderReply(msgidToStreamId[reqs[r].in.msg.msgid])

(***************************************************************************)
(* C27  Life cycle of a Stream State                                       *)
(***************************************************************************)
\* C27 as stated: a Stream State whose finished flag is true has its started
\* flag true; no state is terminal without generation having been launched
C27_FinishedImpliesStarted ==
    \A id \in DOMAIN streams : streams[id].finished => streams[id].started

\* the state was marked finished when it was created, and nothing was launched
\* for it: no task, no content, no error, never updated since
FinishedAtCreation(id) ==
    /\ streams[id].finished /\ ~streams[id].started
    /\ task[id] = "none"
    /\ streams[id].content = <<>> /\ streams[id].error = None
    /\ streams[id].updatedAt = streams[id].createdAt
    /\ \E r \in Slots : reqs[r].streamId = id /\ ~reqs[r].core

\* C27 amended: a finished Stream State is started, unless it was created while
\* no generation runtime was available: then it was finished at creation and
\* nothing is launched for it; a task runs, and content or an error arrives,
\* only for a started state
C27_FinishedStartedOrNoRuntime ==
    \A id \in DOMAIN streams :
        /\ streams[id].finished => (streams[id].started \/ FinishedAtCreation(id))
        /\ ~streams[id].started => FinishedAtCreation(id)
        /\ streams[id].started =>
              /\ task[id] # "none"
              /\ \E r \in Slots : reqs[r].streamId = id /\ reqs[r].core

\* one state was finished at creation for want of a runtime, another was started
\* and then finished by its task
C27_Witness ==
    \E a, b \in DOMAIN streams :
        /\ FinishedAtCreation(a)
        /\ streams[b].started /\ streams[b].finished /\ task[b] = "resolved"

(***************************************************************************)
(* C28  Entries leave the table by pruning only                            *)
(***************************************************************************)
\* a callback of the generation launched for stream id fires
Callback(id) ==
    \/ \E text \in ChunkTexts : OnChunk(id, text)
    \/ \E text \in ErrTexts : OnError(id, text) \/ TaskReject(id, text)
    \/ TaskResolve(id)

\* C28: a Stream State leaves the table only through the TTL pruning of an
\* arriving request, and a callback that fires for a stream id already pruned is
\* a no-op: it re-creates no entry, adds no index entry, changes no other stream
C28_LeavesOnlyByPruning ==
    [][/\ \A id \in DOMAIN streams \ DOMAIN streams' :
             /\ \E r \in Slots : Arrives(r)
             /\ UpdatedBeforeTtl(streams[id])
       /\ \A id \in StreamIds :
             (id \notin DOMAIN streams /\ calls' # calls /\ Callback(id)) =>
                 /\ streams' = streams
                 /\ msgidToStreamId' = msgidToStreamId
                 /\ issued' = issued]_vars

\* a Stream State was pruned while the generation launched for it is running,
\* with another Stream State in the table: its callbacks fire for a pruned id
C28_Witness ==
    \E id \in issued \ DOMAIN streams :
        /\ task[id] = "running" /\ calls < MaxCalls
        /\ DOMAIN streams # {}

(***************************************************************************)
(* C29  Pruning at the start of every request                              *)
(***************************************************************************)
\* the Stream States last updated within the TTL
Fresh == {id \in DOMAIN streams : ~UpdatedBeforeTtl(streams[id])}

\* C29: the arrival of a request, before the request looks anything up, removes
\* exactly the Stream States last updated more than the TTL ago and the index
\* entries pointing to them; a state updated within the TTL survives unchanged,
\* whatever its creation time
C29_PruningAtArrival ==
    [][\A r \in Slots :
          Arrives(r) =>
              /\ DOMAIN streams' = Fresh
              /\ \A id \in Fresh : streams'[id] = streams[id]
              /\ DOMAIN msgidToStreamId' =
                    {m \in DOMAIN msgidToStreamId : msgidToStreamId[m] \in Fresh}
              /\ \A m \in DOMAIN msgidToStreamId' :
                    msgidToStreamId'[m] = msgidToStreamId[m]
              /\ reqs'[r].branch \notin {"poll", "duplicate", "event", "new"}]_vars

\* a request has just arrived, and a Stream State created more than the TTL
\* before but updated within it is still in the table and in the index
C29_Witness ==
    \E r \in Slots, id \in DOMAIN streams :
        /\ reqs[r].arrivedAt = Some(now)
        /\ CreatedBeforeTtl(streams[id])
        /\ ~UpdatedBeforeTtl(streams[id])
        /\ \E m \in DOMAIN msgidToStreamId : msgidToStreamId[m] = id

(***************************************************************************)
(* C30  Polls and duplicates are read-only                                 *)
(***************************************************************************)
\* request r is answered in the poll or in the duplicate branch
ReadOnlyAnswered(r) ==
    /\ reqs[r].pc = "body" /\ reqs'[r].pc = "done"
    /\ reqs'[r].branch \in {"poll", "duplicate"}

\* the step adds no Stream State and no index entry and changes none
NothingWritten ==
    /\ DOMAIN streams' \subseteq DOMAIN streams
    /\ \A id \in DOMAIN streams' : streams'[id] = streams[id]
    /\ DOMAIN msgidToStreamId' \subseteq DOMAIN msgidToStreamId
    /\ \A m \in DOMAIN msgidToStreamId' : msgidToStreamId'[m] = msgidToStreamId[m]

\* C30: a poll or duplicate request leaves every Stream State (content, flags,
\* error, updatedAt) and the Deduplication Index unchanged, apart from the
\* pruning at its arrival, and starts no generation
C30_PollsAndDuplicatesReadOnly ==
    [][\A r \in Slots :
          /\ Arrives(r) => NothingWritten /\ task' = task /\ issued' = issued
          /\ ReadOnlyAnswered(r) =>
                /\ streams' = streams /\ msgidToStreamId' = msgidToStreamId
                /\ task' = task /\ issued' = issued
                /\ reqs'[r].dispatchedFor = 0 /\ reqs'[r].streamId = NoStreamId]_vars

\* a poll was answered from a live Stream State whose last update lies in the
\* past, and the state still is what the poll replied with
C30_Witness ==
    \E r \in Slots :
        /\ reqs[r].pc = "done" /\ reqs[r].branch = "poll"
        /\ reqs[r].in.msg.streamId \in DOMAIN streams
        /\ streams[reqs[r].in.msg.streamId].updatedAt < now
        /\ reqs[r].reply = buildStreamReplyFromState(streams[reqs[r].in.msg.streamId])

(***************************************************************************)
(* C31  A finished reply is final                                          *)
(***************************************************************************)
\* what a poll for stream id would be answered in the state st (a poll reads
\* the state and writes nothing, so one may be answered between any two steps)
PollView(st, id) == PollReply(PollMsg(id), st, now)

\* C31: once a poll for a stream id has returned finish = true, every later
\* poll for that id, while the state is in the table, returns finish = true with
\* the same content, whatever callbacks fire in between
C31_FinishedReplyIsFinal ==
    [][\A id \in DOMAIN streams \cap DOMAIN streams' :
          PollView(streams, id).finish =>
              /\ PollView(streams', id).finish
              /\ PollView(streams', id).content = PollView(streams, id).content]_vars

(***************************************************************************)
(* C32  Settled generation finishes the stream                             *)
(***************************************************************************)
Settled(id) == task[id] \in {"resolved", "rejected"}

\* the generation task of stream id settles in this step
Settles(id) == task[id] = "running" /\ task'[id] \in {"resolved", "rejected"}

\* request r creates a Stream State while no runtime is available
CreatesWithoutRuntime(r) ==
    reqs[r].pc = "body" /\ reqs'[r].branch = "new" /\ ~runtime

\* C32: a Stream State whose generation task settles while the state is in the
\* table is finished from then on, and every poll answered for it afterwards
\* carries finish = true; a state created while no runtime is available is
\* finished at once and the backend is not invoked
C32_SettledMeansFinished ==
    [][/\ \A id \in DOMAIN streams : Settles(id) => streams'[id].finished
       /\ \A id \in DOMAIN streams' : Settled(id) => streams'[id].finished
       /\ \A r \in Slots :
             /\ (PollAnswered(r) /\ reqs[r].in.msg.streamId \in DOMAIN streams
                    /\ Settled(reqs[r].in.msg.streamId)) => reqs'[r].reply.finish
             /\ CreatesWithoutRuntime(r) =>
                    /\ reqs'[r].streamId \in DOMAIN streams'
                    /\ streams'[reqs'[r].streamId].finished
                    /\ task'[reqs'[r].streamId] = "none"
                    /\ reqs'[r].dispatchedFor = 0]_vars

\* the task of a live stream resolved without any content, and a poll for the
\* stream was answered finish = true
C32_Witness ==
    \E r \in Slots :
        /\ reqs[r].pc = "done" /\ reqs[r].branch = "poll"
        /\ reqs[r].in.msg.streamId \in DOMAIN streams
        /\ task[reqs[r].in.msg.streamId] = "resolved"
        /\ streams[reqs[r].in.msg.streamId].content = <<>>
        /\ reqs[r].reply.finish

(***************************************************************************)
(* C33  Isolation between accounts                                         *)
(***************************************************************************)
\* the accounts that the deliveries creating stream id were authenticated for
Owners(id) == {reqs[q].target : q \in Origin(id)}

\* C33: a poll answered from a Stream State is authenticated for the target the
\* state was created for, and a delivery is treated as a duplicate only of a
\* message accepted for the target it is authenticated for
C33_StreamsIsolatedByAccount ==
    [][\A r \in Slots :
          /\ (PollAnswered(r) /\ reqs[r].in.msg.streamId \in DOMAIN streams) =>
                 reqs'[r].target \in Owners(reqs[r].in.msg.streamId)
          /\ (DuplicateAnswered(r) /\ reqs[r].in.msg.msgid \in DOMAIN msgidToStreamId) =>
                 reqs'[r].target \in Owners(msgidToStreamId[reqs[r].in.msg.msgid])]_vars

(***************************************************************************)
(* C34  The bounded wait is a cooperative suspension                       *)
(***************************************************************************)
\* the next request slot, if one is left
NextSlot == {q \in Slots : reqs[q].pc = "idle" /\ \A p \in 1..(q - 1) : reqs[p].pc # "idle"}

\* while a request is in its bounded wait: another request can arrive (a poll,
\* a delivery of another message id, a handshake), one suspended at its body read
\* can be handled, and the callbacks of a running generation can be applied
OthersCanProceed ==
    (\E w \in Slots : Waiting(w)) =>
        /\ \A q \in NextSlot, in \in WaitInputs : ENABLED StartRequest(q, in, FALSE)
        /\ \A q \in Slots : reqs[q].pc = "body" => ENABLED BodyRead(q)
        /\ \A id \in StreamIds :
              (task[id] = "running" /\ calls < MaxCalls) => ENABLED TaskResolve(id)

\* a callback of stream id changes no other Stream State, and a step of another
\* request leaves a waiting request suspended on the same stream
OnlyOwnStream ==
    /\ \A id \in StreamIds :
          (calls' # calls /\ Callback(id)) =>
              /\ DOMAIN streams' = DOMAIN streams
              /\ \A k \in DOMAIN streams \ {id} : streams'[k] = streams[k]
    /\ \A w \in Slots :
          (Waiting(w) /\ reqs'[w].pc = "wait") => reqs'[w].streamId = reqs[w].streamId

\* C34: while a new-message request is in its bounded wait, other requests can
\* be handled and answered and generation callbacks can be applied, and the
\* callbacks of one stream modify that stream's state only
C34_WaitIsCooperative == [][OthersCanProceed /\ OnlyOwnStream]_vars

\* a request is still in its bounded wait, a poll for its stream has been
\* answered from the state in the meantime, and a chunk has been applied
C34_Witness ==
    \E w, q \in Slots :
        /\ Waiting(w) /\ reqs[w].streamId \in DOMAIN streams
        /\ reqs[q].pc = "done" /\ reqs[q].branch = "poll"
        /\ reqs[q].in.msg.streamId = reqs[w].streamId
        /\ ~reqs[q].reply.finish
        /\ streams[reqs[w].streamId].content # <<>>

(***************************************************************************)
(* C35  Registration and unregistration are scoped to one target           *)
(***************************************************************************)
\* the target objects registered on path, in order
RegisteredOn(wt, path) ==
    IF path \in DOMAIN wt THEN [i \in 1..Len(wt[path]) |-> wt[path][i].handle] ELSE <<>>

\* the target objects registered anywhere
RegisteredHandles(wt) ==
    UNION {{wt[path][i].handle : i \in 1..Len(wt[path])} : path \in DOMAIN wt}

\* the sequence without h
Without(handles, h) == LET keep(x) == x # h IN SelectSeq(handles, keep)

\* the function returned for target object h removes exactly h: every other
\* target stays registered, on its path and in its order; a second call
\* changes nothing
RemovesExactly(h) ==
    /\ \A path \in RequestPaths :
          RegisteredOn(webhookTargets', path) = Without(RegisteredOn(webhookTargets, path), h)
    /\ h \notin RegisteredHandles(webhookTargets) => webhookTargets' = webhookTargets
    /\ \A path \in DOMAIN webhookTargets' : Len(webhookTargets'[path]) > 0

\* a request in flight keeps the targets it took when it arrived, through its
\* body read and its bounded wait, is authenticated against the first of them
\* that verifies its signature, and is answered
InFlightCompletes ==
    /\ hand.pc \in {"body", "wait"} =>
          /\ hand'.targets = hand.targets
          /\ hand'.pc # hand.pc => hand'.pc \in {"wait", "done"}
          /\ (hand.pc = "wait" /\ hand'.pc = "done") =>
                 hand'.status = 200 /\ hand'.target = hand.target
    /\ (hand.pc = "body" /\ hand'.pc # "body") =>
          IF \E i \in 1..Len(hand.targets) : hand.targets[i].token = hand.sig
          THEN /\ hand'.pc = "wait"
               /\ \E i \in 1..Len(hand.targets) :
                     /\ hand.targets[i].handle = hand'.target
                     /\ hand.targets[i].token = hand.sig
                     /\ \A j \in 1..(i - 1) : hand.targets[j].token # hand.sig
          ELSE hand'.pc = "done" /\ hand'.status = 401

\* a request that starts takes only targets registered at that moment, and a
\* target object once removed is never registered again
StartsOnRegistered ==
    /\ (hand.pc \in {"idle", "done"} /\ hand'.pc = "body") =>
          {hand'.targets[i].handle : i \in 1..Len(hand'.targets)}
              \subseteq RegisteredHandles(webhookTargets)
    /\ \A h \in 1..Len(registrations) :
          h \notin RegisteredHandles(webhookTargets) =>
              h \notin RegisteredHandles(webhookTargets')

\* C35: a target's unregister function removes exactly that target, and again
\* changes nothing; a request in flight completes normally whatever is
\* registered or unregistered during its body read or bounded wait; a request
\* that starts after a target was unregistered is not authenticated against it
C35_RegistrationScopedToTarget ==
    [][/\ \A h \in 1..Len(registrations) : CallUnregister(h) => RemovesExactly(h)
       /\ InFlightCompletes
       /\ StartsOnRegistered]_vars

\* a request was answered for a target that was unregistered while the request
\* was in flight, another target is still registered on the path, and the
\* removed one is registered nowhere
C35_Witness ==
    /\ hand.pc = "done" /\ hand.status = 200
    /\ hand.target \notin RegisteredHandles(webhookTargets)
    /\ \E path \in DOMAIN webhookTargets :
          /\ registrations[hand.target].path = path
          /\ \E i \in 1..Len(webhookTargets[path]) :
                webhookTargets[path][i].account = registrations[hand.target].account

(***************************************************************************)
(* C36  One webhook target per account                                     *)
(***************************************************************************)
\* the target objects registered for account, on any path
TargetsOf(account) ==
    {h \in RegisteredHandles(webhookTargets) : registrations[h].account = account}

\* C36: after any sequence of startAccount and stopAccount calls an account has
\* at most one webhook target registered, none after stopAccount, and none after
\* a startAccount that found the account not configured
C36_OneTargetPerAccount ==
    \A account \in Accounts :
        /\ Cardinality(TargetsOf(account)) <= 1
        /\ accountStatus[account] = "stopped" => TargetsOf(account) = {}
        /\ accountStatus[account] = "unconfigured" => TargetsOf(account) = {}

(***************************************************************************)
(* C37  Appending keeps the most recent text                               *)
(***************************************************************************)
\* the previous content and the new text, with a blank line in between when
\* there was content, trimmed
TrimmedJoin(content, text) ==
    Trim(IF content # <<>> THEN content \o <<"n", "n">> \o text ELSE text)

\* C37: after an append the content is the trimmed join of the previous content
\* and the new text, or, when that exceeds the byte cap, a suffix of it, and
\* updatedAt is refreshed
C37_AppendKeepsMostRecent ==
    [][\A id \in DOMAIN streams, text \in ChunkTexts :
          (calls' # calls /\ OnChunk(id, text)) =>
              LET joined == TrimmedJoin(streams[id].content, text)
              IN /\ ByteLength(joined) <= STREAM_MAX_BYTES => streams'[id].content = joined
                 /\ ByteLength(joined) > STREAM_MAX_BYTES =>
                        IsSuffix(streams'[id].content, joined)
                 /\ streams'[id].updatedAt = now]_vars

(***************************************************************************)
(* C38  The initial reply                                                  *)
(***************************************************************************)
\* request r, handled in the new message branch, is answered
InitialAnswered(r) == Responds(r) /\ reqs'[r].branch = "new"

\* C38: the initial reply to a new message carries the state's content and
\* finished flag when content or an error has appeared by the end of the
\* bounded wait, and the placeholder otherwise, in both cases with the stream
\* id under which the state and the message id were registered
C38_InitialReplyShowsState ==
    [][\A r \in Slots :
          (InitialAnswered(r) /\ reqs'[r].streamId \in DOMAIN streams') =>
              LET sid == reqs'[r].streamId
                  state == streams'[sid]
                  m == reqs[r].in.msg.msgid
              IN /\ reqs'[r].reply =
                        IF state.content # <<>> \/ state.error # None
                        THEN Reply(200, "stream", sid, state.finished, state.content)
                        ELSE buildStreamPlaceholderReply(sid)
                 /\ state.streamId = sid
                 /\ (m # NoMsgId /\ m \in DOMAIN msgidToStreamId') =>
                        msgidToStreamId'[m] = sid]_vars

====
